---- MODULE Spec2Model ----
(***************************************************************************)
(* Model of the Herold family-tree renderer: the layout engine             *)
(* (LayoutEngine.ts), the markup serializer (SVGGenerator.ts), the         *)
(* rendering service (SVGRenderingService.ts), the request handlers that   *)
(* drive them (routes/svg.ts, FamilyMemberIntegrationService.ts) and the   *)
(* member operations of the data layer (FamilyMemberService.ts).           *)
(*                                                                         *)
(* Strings (member ids, names, serialized text) are sequences of           *)
(* one-character strings; the empty sequence stands for null / "" (both    *)
(* are falsy in the source).  Lengths are pixels; every spacing value the  *)
(* model draws is even, so the source's divisions by two are exact.        *)
(***************************************************************************)
EXTENDS Integers, Sequences, FiniteSets, TLC

VARIABLES project, status, errors, layout, config, svg, svgFile,
          options, layoutEngine, inherited, calls

vars == <<project, status, errors, layout, config, svg, svgFile,
          options, layoutEngine, inherited, calls>>

(***************************************************************************)
(* Generic helpers                                                         *)
(***************************************************************************)
Null == <<>>

Max(a, b) == IF a >= b THEN a ELSE b

Min(a, b) == IF a <= b THEN a ELSE b

Range(s) == {s[i] : i \in DOMAIN s}

None == <<>>

Some(v) == <<v>>

RECURSIVE Concat(_)
Concat(ss) == IF ss = <<>> THEN <<>> ELSE Head(ss) \o Concat(Tail(ss))

RECURSIVE MaxOf(_)
MaxOf(s) == IF Len(s) = 1 THEN s[1] ELSE Max(Head(s), MaxOf(Tail(s)))

RECURSIVE MinOf(_)
MinOf(s) == IF Len(s) = 1 THEN s[1] ELSE Min(Head(s), MinOf(Tail(s)))

\* object spread { ...base, ...over }: keys of over win
Merge(base, over) ==
  [k \in (DOMAIN base) \cup (DOMAIN over) |->
      IF k \in DOMAIN over THEN over[k] ELSE base[k]]

\* UTF-16 code units of the characters the model uses
CharCode(c) ==
  CASE c = " " -> 32
    [] c = "\"" -> 34 [] c = "#" -> 35 [] c = "&" -> 38 [] c = "'" -> 39
    [] c = "-" -> 45 [] c = "0" -> 48 [] c = "1" -> 49 [] c = "2" -> 50
    [] c = "3" -> 51 [] c = "4" -> 52 [] c = "5" -> 53 [] c = "6" -> 54
    [] c = "7" -> 55 [] c = "8" -> 56 [] c = "9" -> 57 [] c = ";" -> 59
    [] c = "<" -> 60 [] c = ">" -> 62 [] c = "B" -> 66 [] c = "C" -> 67
    [] c = "N" -> 78 [] c = "_" -> 95
    [] c = "a" -> 97 [] c = "b" -> 98 [] c = "c" -> 99 [] c = "d" -> 100
    [] c = "g" -> 103 [] c = "l" -> 108 [] c = "m" -> 109 [] c = "n" -> 110
    [] c = "o" -> 111 [] c = "p" -> 112 [] c = "q" -> 113 [] c = "t" -> 116
    [] c = "u" -> 117 [] c = "x" -> 120 [] OTHER -> 122

\* s sorts before t under Array.prototype.sort's default comparison
RECURSIVE StrLess(_, _)
StrLess(s, t) ==
  IF t = <<>> THEN FALSE
  ELSE IF s = <<>> THEN TRUE
  ELSE IF CharCode(Head(s)) # CharCode(Head(t))
       THEN CharCode(Head(s)) < CharCode(Head(t))
       ELSE StrLess(Tail(s), Tail(t))

(***************************************************************************)
(* LayoutEngine                                                            *)
(***************************************************************************)
avgCharWidth == 8

baseWidth == 400

minPageWidth == 595

minPageHeight == 842

connectorOffset == 10

DefaultConfig ==
  [generationSpacing |-> 80, personSpacing |-> 120, marriageSpacing |-> 40,
   fontSize |-> 16, fontFamily |-> "Dancing Script",
   marginTop |-> 100, marginBottom |-> 50,
   marginLeft |-> 50, marginRight |-> 50, titleHeight |-> 90,
   lineColor |-> "#8b7355", lineWidth |-> 1]

\* new LayoutEngine(config): defaults overlaid with the given partial config
EngineConfig(partial) == Merge(DefaultConfig, partial)

estimateTextWidth(text) == Len(text) * avgCharWidth

\* members.find(m => m.id === id), as the set of hits (empty: undefined)
FindMember(members, id) == {i \in DOMAIN members : members[i].id = id}

\* variant: the has-check of the map is dropped
GenerationKeys_noDedupe(members, seen) ==
  [i \in 1..Len(members) |-> members[i].generation]

\* keys of generationMap in insertion order
RECURSIVE GenerationKeys(_, _)
GenerationKeys(members, seen) ==
  IF members = <<>> THEN <<>>
  ELSE IF Head(members).generation \in seen
       THEN GenerationKeys(Tail(members), seen)
       ELSE <<Head(members).generation>> \o
            GenerationKeys(Tail(members), seen \cup {Head(members).generation})

RECURSIVE InsertSorted(_, _)
InsertSorted(x, s) ==
  IF s = <<>> THEN <<x>>
  ELSE IF x - Head(s) < 0 THEN <<x>> \o s
       ELSE <<Head(s)>> \o InsertSorted(x, Tail(s))

\* variant: the keys are left in insertion order
SortNumeric_unsorted(s) == s

\* Array.prototype.sort((a, b) => a - b)
RECURSIVE SortNumeric(_)
SortNumeric(s) ==
  IF s = <<>> THEN <<>> ELSE InsertSorted(Head(s), SortNumeric(Tail(s)))

BandY(index, cfg) ==
  cfg.titleHeight + cfg.marginTop + (index * cfg.generationSpacing)

groupByGeneration(members, cfg) ==
  LET sortedGens == SortNumeric(GenerationKeys(members, {}))
  IN [index \in 1..Len(sortedGens) |->
        [generation |-> sortedGens[index],
         members    |-> SelectSeq(members,
                          LAMBDA m : m.generation = sortedGens[index]),
         yPosition  |-> BandY(index - 1, cfg),
         leftmostX  |-> 0,
         rightmostX |-> 0]]

\* members.find(m => m.id === id), as a sequence of at most one member
FirstMember(members, id) ==
  LET hits == FindMember(members, id)
  IN IF hits = {} THEN <<>>
     ELSE <<members[CHOOSE i \in hits : \A j \in hits : i <= j]>>

\* variant: the spouse joins the group even when already processed
ClaimSpouse_unchecked(members, member, processed) ==
  IF member.partner = Null THEN <<>>
  ELSE FirstMember(members, member.partner)

\* the spouse pushed into the group that member starts
ClaimSpouse(members, member, processed) ==
  IF member.partner = Null THEN <<>>
  ELSE SelectSeq(FirstMember(members, member.partner),
                 LAMBDA spouse : spouse.id \notin processed)

\* variant: a child joins the group even when already processed
ClaimChildren_unchecked(members, barn, processed) ==
  Concat([c \in 1..Len(barn) |-> FirstMember(members, barn[c])])

\* the children pushed into the group, in the order of the barn list
RECURSIVE ClaimChildren(_, _, _)
ClaimChildren(members, barn, processed) ==
  IF barn = <<>> THEN <<>>
  ELSE LET child == FirstMember(members, Head(barn))
       IN IF child # <<>> /\ child[1].id \notin processed
          THEN child \o ClaimChildren(members, Tail(barn),
                                      processed \cup {child[1].id})
          ELSE ClaimChildren(members, Tail(barn), processed)

\* the groups started by members[index..], given the processed ids
RECURSIVE GroupsFrom(_, _, _)
GroupsFrom(members, index, processed) ==
  IF index > Len(members) THEN <<>>
  ELSE IF members[index].id \in processed
       THEN GroupsFrom(members, index + 1, processed)
       ELSE LET member   == members[index]
                started  == processed \cup {member.id}
                spouse   == ClaimSpouse(members, member, started)
                paired   == started \cup {spouse[i].id : i \in DOMAIN spouse}
                children == ClaimChildren(members, member.barn, paired)
            IN <<[id         |-> member.id,
                  members    |-> <<member>> \o spouse \o children,
                  centerX    |-> 0,
                  generation |-> member.generation,
                  marriages  |-> <<>>]>>
               \o GroupsFrom(members, index + 1,
                             paired \cup {children[i].id :
                                            i \in DOMAIN children})

identifyFamilyGroups(members) == GroupsFrom(members, 1, {})

\* spacing between members[index] and members[index + 1] in the width estimate
EstimateGap(members, index, cfg) ==
  IF members[index].partner = members[index + 1].id
     \/ members[index + 1].partner = members[index].id
  THEN cfg.marriageSpacing
  ELSE cfg.personSpacing

RECURSIVE TotalWidthFrom(_, _, _)
TotalWidthFrom(members, index, cfg) ==
  IF index > Len(members) THEN 0
  ELSE estimateTextWidth(members[index].namn)
       + (IF index < Len(members) THEN EstimateGap(members, index, cfg) ELSE 0)
       + TotalWidthFrom(members, index + 1, cfg)

calculateTotalWidthForGeneration(members, cfg) ==
  TotalWidthFrom(members, 1, cfg)

\* variant: no centring against the base width
StartX_leftMargin(genMembers, cfg) == cfg.marginLeft

\* initial value of currentX for a band
StartX(genMembers, cfg) ==
  cfg.marginLeft
  + Max(0, (baseWidth - calculateTotalWidthForGeneration(genMembers, cfg)) \div 2)

\* the member has a partner and that partner is somewhere in the same band
SpouseInBand(genMembers, member) ==
  member.partner # Null /\ FindMember(genMembers, member.partner) # {}

\* variant: a member with a spouse in the band gets no spacing at all
Advance_spouseAdjoins(genMembers, index, cfg) ==
  estimateTextWidth(genMembers[index].namn) + cfg.personSpacing
  - (IF SpouseInBand(genMembers, genMembers[index])
     THEN cfg.personSpacing
     ELSE 0)

\* how far currentX moves after placing genMembers[index]
Advance(genMembers, index, cfg) ==
  estimateTextWidth(genMembers[index].namn) + cfg.personSpacing
  - (IF SpouseInBand(genMembers, genMembers[index])
     THEN cfg.personSpacing - cfg.marriageSpacing
     ELSE 0)

\* currentX just before genMembers[index] is placed
RECURSIVE CursorAt(_, _, _)
CursorAt(genMembers, index, cfg) ==
  IF index = 1 THEN StartX(genMembers, cfg)
  ELSE CursorAt(genMembers, index - 1, cfg) + Advance(genMembers, index - 1, cfg)

PlaceBand(generation, cfg) ==
  [index \in 1..Len(generation.members) |->
     [x         |-> CursorAt(generation.members, index, cfg)
                    + estimateTextWidth(generation.members[index].namn) \div 2,
      y         |-> generation.yPosition,
      member    |-> generation.members[index],
      textWidth |-> estimateTextWidth(generation.members[index].namn)]]

calculatePersonPositions(generations, cfg) ==
  Concat([g \in 1..Len(generations) |-> PlaceBand(generations[g], cfg)])

\* the bands after calculatePersonPositions has written their bounds
BoundedGenerations(generations, cfg) ==
  [g \in 1..Len(generations) |->
     [generations[g] EXCEPT
        !.leftmostX  = cfg.marginLeft,
        !.rightmostX = CursorAt(generations[g].members,
                                Len(generations[g].members) + 1, cfg)]]

\* layoutMap.get(id): the last layout stored under the id, as a set
LayoutOf(personLayouts, id) ==
  LET hits == {i \in DOMAIN personLayouts : personLayouts[i].member.id = id}
  IN IF hits = {} THEN {}
     ELSE {personLayouts[CHOOSE i \in hits : \A j \in hits : j <= i]}

\* variant: only the first recorded parent is connected
ConnectionsOf_firstParentOnly(personLayouts, member) ==
  LET childLayouts  == LayoutOf(personLayouts, member.id)
      childLayout   == CHOOSE l \in childLayouts : TRUE
      parentLayouts == LayoutOf(personLayouts, member.foraldrar[1])
      parentLayout  == CHOOSE l \in parentLayouts : TRUE
  IN IF childLayouts = {} \/ member.foraldrar = <<>> \/ parentLayouts = {}
     THEN <<>>
     ELSE <<[x1 |-> parentLayout.x,
             y1 |-> parentLayout.y + connectorOffset,
             x2 |-> childLayout.x,
             y2 |-> childLayout.y - connectorOffset,
             type |-> "parent-child"]>>

ConnectionsOf(personLayouts, member) ==
  LET childLayouts == LayoutOf(personLayouts, member.id)
      childLayout  == CHOOSE l \in childLayouts : TRUE
      Line(parentId) ==
        LET parentLayouts == LayoutOf(personLayouts, parentId)
            parentLayout  == CHOOSE l \in parentLayouts : TRUE
        IN IF parentLayouts = {} THEN <<>>
           ELSE <<[x1 |-> parentLayout.x,
                   y1 |-> parentLayout.y + connectorOffset,
                   x2 |-> childLayout.x,
                   y2 |-> childLayout.y - connectorOffset,
                   type |-> "parent-child"]>>
  IN IF childLayouts = {} THEN <<>>
     ELSE Concat([p \in 1..Len(member.foraldrar) |-> Line(member.foraldrar[p])])

generateConnections(personLayouts, members) ==
  Concat([m \in 1..Len(members) |-> ConnectionsOf(personLayouts, members[m])])

\* [id1, id2].sort().join('-')
PairKey(id1, id2) ==
  IF StrLess(id2, id1) THEN id2 \o <<"-">> \o id1 ELSE id1 \o <<"-">> \o id2

RECURSIVE MarriagesFrom(_, _, _, _)
MarriagesFrom(personLayouts, members, index, processedPairs) ==
  IF index > Len(members) THEN <<>>
  ELSE LET member  == members[index]
           pairKey == PairKey(member.id, member.partner)
           l1      == LayoutOf(personLayouts, member.id)
           l2      == LayoutOf(personLayouts, member.partner)
           p1      == CHOOSE l \in l1 : TRUE
           p2      == CHOOSE l \in l2 : TRUE
       IN IF member.partner = Null
          THEN MarriagesFrom(personLayouts, members, index + 1, processedPairs)
          ELSE IF pairKey \in processedPairs
          THEN MarriagesFrom(personLayouts, members, index + 1, processedPairs)
          ELSE (IF l1 = {} \/ l2 = {} THEN <<>>
                ELSE <<[person1  |-> p1,
                        person2  |-> p2,
                        symbolX2 |-> p1.x + p2.x,
                        symbolY2 |-> p1.y + p2.y]>>)
               \o MarriagesFrom(personLayouts, members, index + 1,
                                processedPairs \cup {pairKey})

generateMarriages(personLayouts, members) ==
  MarriagesFrom(personLayouts, members, 1, {})

\* variant: the bounding box is not clamped to the minimum page
calculateDimensions_unclamped(personLayouts, cfg) ==
  IF Len(personLayouts) = 0
  THEN [width |-> minPageWidth, height |-> minPageHeight]
  ELSE LET n    == Len(personLayouts)
           minX == MinOf([i \in 1..n |-> personLayouts[i].x - personLayouts[i].textWidth \div 2])
           maxX == MaxOf([i \in 1..n |-> personLayouts[i].x + personLayouts[i].textWidth \div 2])
           minY == MinOf([i \in 1..n |-> personLayouts[i].y])
           maxY == MaxOf([i \in 1..n |-> personLayouts[i].y])
       IN [width  |-> maxX - minX + cfg.marginLeft + cfg.marginRight,
           height |-> maxY - minY + cfg.marginTop + cfg.marginBottom
                      + cfg.titleHeight]

\* variant: the margins are not added to the bounding box
calculateDimensions_boxOnly(personLayouts, cfg) ==
  IF Len(personLayouts) = 0
  THEN [width |-> minPageWidth, height |-> minPageHeight]
  ELSE LET n    == Len(personLayouts)
           minX == MinOf([i \in 1..n |-> personLayouts[i].x - personLayouts[i].textWidth \div 2])
           maxX == MaxOf([i \in 1..n |-> personLayouts[i].x + personLayouts[i].textWidth \div 2])
           minY == MinOf([i \in 1..n |-> personLayouts[i].y])
           maxY == MaxOf([i \in 1..n |-> personLayouts[i].y])
       IN [width  |-> Max(minPageWidth, maxX - minX),
           height |-> Max(minPageHeight, maxY - minY)]

calculateDimensions(personLayouts, cfg) ==
  IF Len(personLayouts) = 0
  THEN [width |-> minPageWidth, height |-> minPageHeight]
  ELSE LET n    == Len(personLayouts)
           minX == MinOf([i \in 1..n |-> personLayouts[i].x - personLayouts[i].textWidth \div 2])
           maxX == MaxOf([i \in 1..n |-> personLayouts[i].x + personLayouts[i].textWidth \div 2])
           minY == MinOf([i \in 1..n |-> personLayouts[i].y])
           maxY == MaxOf([i \in 1..n |-> personLayouts[i].y])
       IN [width  |-> Max(minPageWidth,
                          maxX - minX + cfg.marginLeft + cfg.marginRight),
           height |-> Max(minPageHeight,
                          maxY - minY + cfg.marginTop + cfg.marginBottom
                          + cfg.titleHeight)]

\* familyGroups is handed to calculatePersonPositions, which does not
\* read it
generateLayout(proj, cfg) ==
  LET members       == proj.members
      generations   == groupByGeneration(members, cfg)
      familyGroups  == identifyFamilyGroups(members)
      personLayouts == calculatePersonPositions(generations, cfg)
  IN [people      |-> personLayouts,
      connections |-> generateConnections(personLayouts, members),
      marriages   |-> generateMarriages(personLayouts, members),
      dimensions  |-> calculateDimensions(personLayouts, cfg),
      generations |-> BoundedGenerations(generations, cfg)]

(***************************************************************************)
(* SVGGenerator                                                            *)
(***************************************************************************)
\* String.prototype.replace(/ch/g, repl)
ReplaceAll(text, ch, repl) ==
  Concat([i \in 1..Len(text) |-> IF text[i] = ch THEN repl ELSE <<text[i]>>])

\* variant: the ampersand is replaced last
escapeXML_ampersandLast(text) ==
  ReplaceAll(
    ReplaceAll(
      ReplaceAll(
        ReplaceAll(
          ReplaceAll(text, "<", <<"&", "l", "t", ";">>),
          ">", <<"&", "g", "t", ";">>),
        "\"", <<"&", "q", "u", "o", "t", ";">>),
      "'", <<"&", "#", "x", "2", "7", ";">>),
    "&", <<"&", "a", "m", "p", ";">>)

escapeXML(text) ==
  ReplaceAll(
    ReplaceAll(
      ReplaceAll(
        ReplaceAll(
          ReplaceAll(text, "&", <<"&", "a", "m", "p", ";">>),
          "<", <<"&", "l", "t", ";">>),
        ">", <<"&", "g", "t", ";">>),
      "\"", <<"&", "q", "u", "o", "t", ";">>),
    "'", <<"&", "#", "x", "2", "7", ";">>)

\* the <text> element of the title
generateTitle(proj, width) == escapeXML(proj.name)

\* variant: the horizontal segment runs at the height of the path's start
SvgConnections_elbowAtStart(connections, cfg) ==
  [i \in 1..Len(connections) |->
     [tag |-> "path",
      d   |-> <<<<connections[i].x1, connections[i].y1>>,
                <<connections[i].x1, connections[i].y1>>,
                <<connections[i].x2, connections[i].y1>>,
                <<connections[i].x2, connections[i].y2>>>>,
      stroke |-> cfg.lineColor, strokeWidth |-> cfg.lineWidth]]

\* one <path> per parent-child connection, one <line> per other connection
SvgConnections(connections, cfg) ==
  [i \in 1..Len(connections) |->
     IF connections[i].type = "parent-child"
     THEN [tag |-> "path",
           d   |-> <<<<connections[i].x1, connections[i].y1>>,
                     <<connections[i].x1,
                       (connections[i].y1 + connections[i].y2) \div 2>>,
                     <<connections[i].x2,
                       (connections[i].y1 + connections[i].y2) \div 2>>,
                     <<connections[i].x2, connections[i].y2>>>>,
           stroke |-> cfg.lineColor, strokeWidth |-> cfg.lineWidth]
     ELSE [tag |-> "line",
           d   |-> <<<<connections[i].x1, connections[i].y1>>,
                     <<connections[i].x2, connections[i].y2>>>>,
           stroke |-> cfg.lineColor, strokeWidth |-> cfg.lineWidth]]

\* one <line> and one union-marker <text> per marriage (marker in half pixels)
SvgMarriages(marriages, cfg) ==
  [i \in 1..Len(marriages) |->
     [line   |-> <<<<marriages[i].person1.x, marriages[i].person1.y>>,
                   <<marriages[i].person2.x, marriages[i].person2.y>>>>,
      symbol |-> <<marriages[i].symbolX2, marriages[i].symbolY2 + 12>>,
      stroke |-> cfg.lineColor]]

\* one <text> per placement
generatePeople(people, cfg) ==
  [i \in 1..Len(people) |->
     [x |-> people[i].x, y |-> people[i].y,
      fontSize |-> cfg.fontSize,
      text |-> escapeXML(people[i].member.namn)]]

generateSVG(proj, lay, cfg) ==
  [width       |-> lay.dimensions.width,
   height      |-> lay.dimensions.height,
   fontFamily  |-> proj.settings.font.family,
   title       |-> generateTitle(proj, lay.dimensions.width),
   connections |-> SvgConnections(lay.connections, cfg),
   marriages   |-> SvgMarriages(lay.marriages, cfg),
   people      |-> generatePeople(lay.people, cfg)]

(***************************************************************************)
(* SVGRenderingService                                                     *)
(***************************************************************************)
Constructor == <<"c", "o", "n", "s", "t", "r", "u", "c", "t", "o", "r">>

\* keys under which every object, so also the members map of a parsed
\* project file, yields an inherited (truthy) value
InheritedKeys == {Constructor}

\* id is a key of project.members
IsMember(proj, id) == \E i \in DOMAIN proj.members : proj.members[i].id = id

\* project.members[id] is truthy
HasMember(proj, id) == IsMember(proj, id) \/ id \in InheritedKeys

\* first loop of validateProject, for one member
CircularErrors(member) ==
  (IF member.id \in Range(member.foraldrar)
   THEN <<[kind |-> "own-parent", ids |-> <<member.id>>]>> ELSE <<>>)
  \o
  (IF member.id \in Range(member.barn)
   THEN <<[kind |-> "own-child", ids |-> <<member.id>>]>> ELSE <<>>)

\* second loop of validateProject, for one member
BrokenErrors(proj, member) ==
  Concat([p \in 1..Len(member.foraldrar) |->
            IF ~HasMember(proj, member.foraldrar[p])
            THEN <<[kind |-> "parent-missing",
                    ids  |-> <<member.foraldrar[p], member.id>>]>>
            ELSE <<>>])
  \o
  Concat([c \in 1..Len(member.barn) |->
            IF ~HasMember(proj, member.barn[c])
            THEN <<[kind |-> "child-missing",
                    ids  |-> <<member.barn[c], member.id>>]>>
            ELSE <<>>])
  \o
  (IF member.partner # Null /\ ~HasMember(proj, member.partner)
   THEN <<[kind |-> "partner-missing",
           ids  |-> <<member.partner, member.id>>]>>
   ELSE <<>>)

validateProject(proj) ==
  (IF ~HasMember(proj, proj.mainPersonId)
   THEN <<[kind |-> "main-missing", ids |-> <<>>]>> ELSE <<>>)
  \o Concat([m \in 1..Len(proj.members) |-> CircularErrors(proj.members[m])])
  \o Concat([m \in 1..Len(proj.members) |-> BrokenErrors(proj, proj.members[m])])

\* Math.floor(value * numerator / 10)
\* variant: the factor is floored before it is applied
FloorScale_flooredFactor(value, numerator) == value * (numerator \div 10)

FloorScale(value, numerator) == (value * numerator) \div 10

\* baseConfig of buildLayoutConfig, just before the overrides are applied
baseConfig(proj) ==
  LET base0 == [fontSize   |-> IF proj.settings.font.size.names # 0
                               THEN proj.settings.font.size.names ELSE 16,
                fontFamily |-> proj.settings.font.family,
                lineColor  |-> proj.settings.theme.colors.lines,
                lineWidth  |-> 1]
      base1 == IF proj.settings.layout.spacing = "tight"
               THEN Merge(base0, [generationSpacing |-> 60,
                                  personSpacing     |-> 80,
                                  marriageSpacing   |-> 30])
               ELSE IF proj.settings.layout.spacing = "spacious"
               THEN Merge(base0, [generationSpacing |-> 100,
                                  personSpacing     |-> 150,
                                  marriageSpacing   |-> 50])
               ELSE base0
      gs    == IF "generationSpacing" \in DOMAIN base1
               THEN base1.generationSpacing ELSE 80
      ps    == IF "personSpacing" \in DOMAIN base1
               THEN base1.personSpacing ELSE 120
  IN IF proj.settings.orientation = "landscape"
     THEN Merge(base1, [generationSpacing |-> FloorScale(gs, 8),
                        personSpacing     |-> FloorScale(ps, 12)])
     ELSE base1

\* variant: the project's values are spread over the caller's
buildLayoutConfig_projectWins(proj, overrides) ==
  Merge(overrides, baseConfig(proj))

\* { ...baseConfig, ...overrides }
buildLayoutConfig(proj, overrides) == Merge(baseConfig(proj), overrides)

NoOverrides == [k \in {} |-> 0]

renderFamilyTree(proj, overrides) ==
  LET layoutConfig == EngineConfig(buildLayoutConfig(proj, overrides))
      lay          == generateLayout(proj, layoutConfig)
  IN [svg      |-> generateSVG(proj, lay, layoutConfig),
      layout   |-> lay,
      config   |-> layoutConfig,
      metadata |-> [dimensions      |-> lay.dimensions,
                    peopleCount     |-> Len(proj.members),
                    generationCount |-> Len(lay.generations)]]

thumbnailConfig ==
  [fontSize |-> 12, generationSpacing |-> 60, personSpacing |-> 80,
   marginTop |-> 60, marginBottom |-> 30, titleHeight |-> 50]

generateThumbnail(proj) == renderFamilyTree(proj, thumbnailConfig)

\* this.layoutEngine.generateLayout(project), engine being the service's own
\* engine
getLayoutStats(engine, proj) == generateLayout(proj, engine)

(***************************************************************************)
(* ProjectService.getProject and ProjectValidation                         *)
(***************************************************************************)
\* text.trim().length === 0
IsBlank(text) == \A i \in DOMAIN text : text[i] = " "

\* ProjectValidation.validateProject on a stored project whose id is valid
ProjectValidationErrors(proj) ==
  (IF IsBlank(proj.name) THEN <<[kind |-> "name-required", ids |-> <<>>]>>
   ELSE <<>>)
  \o
  (IF proj.mainPersonId = Null
   THEN <<[kind |-> "main-required", ids |-> <<>>]>> ELSE <<>>)
  \o
  (IF proj.mainPersonId # Null /\ ~HasMember(proj, proj.mainPersonId)
   THEN <<[kind |-> "main-missing", ids |-> <<>>]>> ELSE <<>>)
  \o
  Concat([m \in 1..Len(proj.members) |->
            CircularErrors(proj.members[m])
            \o (IF proj.members[m].partner = proj.members[m].id
                THEN <<[kind |-> "own-partner",
                        ids  |-> <<proj.members[m].id>>]>>
                ELSE <<>>)])

\* getProject returns the stored project, or throws on invalid project data
getProjectThrows(proj) == Len(ProjectValidationErrors(proj)) > 0

(***************************************************************************)
(* Snapshots                                                               *)
(***************************************************************************)
MaxGen == 2

MaxLen == 3

Anna == <<"a", "n", "n", "a">>

Bo == <<"b", "o">>

Cal == <<"c", "a", "l">>

Gus == <<"g", "u", "s">>

HouseName == <<"h", "u", "s">>

\* display names: 3, 6 and 12 characters
NameOf(id) ==
  CASE id = Anna -> <<"a", "&", "b">>
    [] id = Bo   -> <<"b", "<", "o", ">", "o", "o">>
    [] id = Cal  -> <<"c", "'", "l", "\"", "l", "l", "l", "l", "l", "l", "l", "l">>
    [] OTHER     -> id

Settings(spacing, orientation) ==
  [font        |-> [family |-> "Dancing Script", size |-> [names |-> 16]],
   orientation |-> orientation,
   theme       |-> [colors |-> [lines |-> "#8b7355"]],
   layout      |-> [spacing |-> spacing]]

DefaultSettings == Settings("comfortable", "portrait")

\* orders in which Object.values can list the members: every arrangement
\* of every subset of the pool
Orders(pool) ==
  UNION {{o \in [1..Cardinality(S) -> S] :
             \A i, j \in 1..Cardinality(S) : i # j => o[i] # o[j]} :
         S \in SUBSET pool}

\* sets of disjoint couples
Matchings(pool) ==
  {M \in SUBSET {c \in SUBSET pool : Cardinality(c) = 2} :
      \A c, d \in M : c # d => c \cap d = {}}

\* ids of idSet listed in the order of poolSeq
Listed(poolSeq, idSet) == SelectSeq(poolSeq, LAMBDA x : x \in idSet)

Member(id, namn, generation, foraldrar, barn, partner) ==
  [id |-> id, namn |-> namn, generation |-> generation,
   foraldrar |-> foraldrar, barn |-> barn, partner |-> partner]

\* a project with an empty relationship log
Project(name, mainPersonId, members, settings) ==
  [name |-> name, mainPersonId |-> mainPersonId, members |-> members,
   relationships |-> <<>>, settings |-> settings]

Relationship(type, person1, person2) ==
  [type |-> type, person1 |-> person1, person2 |-> person2]

\* the relationship log that goes with the links: one record per parent
\* edge and per couple among the present ids, in the order of poolSeq
LogOf(poolSeq, present, couples, edges) ==
  Concat([i \in 1..Len(poolSeq) |->
    Concat([j \in 1..Len(poolSeq) |->
      (IF <<poolSeq[i], poolSeq[j]>> \in edges
          /\ {poolSeq[i], poolSeq[j]} \subseteq present
       THEN <<Relationship("parent-child", poolSeq[i], poolSeq[j])>>
       ELSE <<>>)
      \o
      (IF i < j /\ {poolSeq[i], poolSeq[j]} \in couples
          /\ {poolSeq[i], poolSeq[j]} \subseteq present
       THEN <<Relationship("marriage", poolSeq[i], poolSeq[j])>>
       ELSE <<>>)])])

\* a snapshot whose references all resolve: couples are mutual, a parent
\* edge <<p, c>> is recorded on both sides; absent ids are left out
Snapshot(poolSeq, order, gen, couples, edges) ==
  LET present == Range(order)
      PartnerOf(id) ==
        IF \E c \in couples : id \in c /\ c \subseteq present
        THEN CHOOSE x \in present :
               x # id /\ \E c \in couples : c = {id, x}
        ELSE Null
  IN [Project(HouseName,
              IF order = <<>> THEN poolSeq[1] ELSE order[1],
              [i \in 1..Len(order) |->
                 Member(order[i], NameOf(order[i]), gen[order[i]],
                        Listed(poolSeq,
                               {p \in present : <<p, order[i]>> \in edges}),
                        Listed(poolSeq,
                               {c \in present : <<order[i], c>> \in edges}),
                        PartnerOf(order[i]))],
              DefaultSettings)
      EXCEPT !.relationships = LogOf(poolSeq, present, couples, edges)]

LayoutPool == <<Anna, Bo, Cal>>

LayoutEdges == {<<Anna, Cal>>, <<Bo, Cal>>}

\* every order and every assignment of generations; couples and parent
\* links are drawn where Anna and Bo share generation 0
LayoutSnapshots ==
  {Snapshot(LayoutPool, o, g, {}, {}) :
     o \in Orders(Range(LayoutPool)),
     g \in [Range(LayoutPool) -> 0..MaxGen]}
  \cup
  {Snapshot(LayoutPool, o, g, m, e) :
     o \in Orders(Range(LayoutPool)),
     g \in {h \in [Range(LayoutPool) -> 0..MaxGen] : h[Anna] = 0 /\ h[Bo] = 0},
     m \in {M \in Matchings(Range(LayoutPool)) : Cardinality(M) <= 1},
     e \in SUBSET LayoutEdges}

\* member ids whose couple keys can coincide
IdA == <<"a">>

IdBC == <<"b", "-", "c">>

IdAB == <<"a", "-", "b">>

IdC == <<"c">>

MarriagePool == <<IdA, IdBC, IdAB, IdC>>

\* one band, every order, every set of disjoint mutual couples
MarriageSnapshots ==
  {Snapshot(MarriagePool, o, [id \in Range(MarriagePool) |-> 0], m, {}) :
     o \in Orders(Range(MarriagePool)),
     m \in Matchings(Range(MarriagePool))}

EscapeAlphabet == {"&", "<", ">", "\"", "'", "t"}

Strings(maxLen) == UNION {[1..n -> EscapeAlphabet] : n \in 0..maxLen}

\* one member; the project and the member carry the same text
EscapeSnapshots ==
  {Project(text, Anna, <<Member(Anna, text, 0, <<>>, <<>>, Null)>>,
           DefaultSettings) :
     text \in Strings(MaxLen)}

\* reference lists of at most maxLen ids drawn from ids
RefLists(ids, maxLen) ==
  {Listed(<<Anna, Bo, Gus>>, S) :
     S \in {T \in SUBSET ids : Cardinality(T) <= maxLen}}

\* stored projects whose references need not resolve: Gus is never a member
RawSnapshots ==
  {Project(HouseName, main,
           <<Member(Anna, NameOf(Anna), 0, fa, ba, pa)>> \o rest,
           DefaultSettings) :
     main \in {Anna, Gus},
     fa \in RefLists({Anna, Bo, Gus}, 2),
     ba \in RefLists({Anna, Gus}, 1),
     pa \in {Null, Anna, Bo, Gus},
     rest \in {<<>>} \cup
              {<<Member(Bo, NameOf(Bo), 1, fb, <<>>, pb)>> :
                 fb \in RefLists({Anna, Gus}, 1),
                 pb \in {Null, Anna, Bo, Gus}}}

\* settings as stored in a project file: spacing preset, orientation and
\* look <<size of names, font family, line colour>>
StyledSettings(spacing, orientation, look) ==
  [font        |-> [family |-> look[2], size |-> [names |-> look[1]]],
   orientation |-> orientation,
   theme       |-> [colors |-> [lines |-> look[3]]],
   layout      |-> [spacing |-> spacing]]

\* the created project's look, a restyled one, and one without a names size
Looks ==
  {<<16, "Dancing Script", "#8b7355">>,
   <<14, "Times New Roman", "#000000">>,
   <<0, "Dancing Script", "#8b7355">>}

ConfigSettings ==
  {StyledSettings(spacing, orientation, look) :
     spacing \in {"tight", "comfortable", "spacious"},
     orientation \in {"portrait", "landscape"},
     look \in Looks}

ConfigPool == <<Anna, Bo>>

\* one or two members under every preset, orientation and look
ConfigSnapshots ==
  {[Snapshot(ConfigPool, o, g, m, {}) EXCEPT !.settings = s] :
     o \in Orders(Range(ConfigPool)) \ {<<>>},
     g \in {h \in [Range(ConfigPool) -> 0..1] : h[Anna] = 0},
     m \in Matchings(Range(ConfigPool)),
     s \in ConfigSettings}

\* a line of descent over the generations -6..6, one person in each
TallPool ==
  [i \in 1..13 |->
     <<"t", <<"a", "b", "c", "d", "g", "l", "m",
              "n", "o", "p", "q", "u", "x">>[i]>>]

TallGeneration ==
  [id \in Range(TallPool) |->
     (CHOOSE i \in DOMAIN TallPool : TallPool[i] = id) - 7]

TallEdges ==
  {<<TallPool[i], TallPool[i + 1]>> : i \in 1..(Len(TallPool) - 1)}

\* the eldest eleven, twelve or all thirteen of the line, under every
\* preset and orientation
TallSnapshots ==
  {[Snapshot(TallPool, SubSeq(TallPool, 1, n), TallGeneration, {}, TallEdges)
      EXCEPT !.settings = Settings(spacing, orientation)] :
     n \in (Len(TallPool) - 2)..Len(TallPool),
     spacing \in {"tight", "comfortable", "spacious"},
     orientation \in {"portrait", "landscape"}}

WidePool == <<Anna, Bo, Cal, Gus>>

\* four persons in member order over one or two bands, with every set of
\* mutual couples, under every preset and orientation
WideSnapshots ==
  {[Snapshot(WidePool, WidePool, g, m, {})
      EXCEPT !.settings = Settings(spacing, orientation)] :
     g \in [Range(WidePool) -> 0..1],
     m \in Matchings(Range(WidePool)),
     spacing \in {"tight", "comfortable", "spacious"},
     orientation \in {"portrait", "landscape"}}

(***************************************************************************)
(* FamilyMemberService                                                     *)
(*                                                                         *)
(* An operation works on the project parsed from the stored file and       *)
(* writes it back only on its last line, so an operation that throws       *)
(* leaves the stored project as it was.  Each operator below maps the      *)
(* stored project and the inherited object's properties to the stored      *)
(* project and the inherited object afterwards and to what the caller      *)
(* gets: [project, inherited, returned].  The fields kön, status,          *)
(* anteckningar and the dates are left out: the model always passes valid  *)
(* values.                                                                 *)
(***************************************************************************)
Huvudperson == <<"h", "u", "v", "u", "d", "p", "e", "r", "s", "o", "n">>

FreshName == <<"N", "a", "m", "n", "l", "o", "s">>

\* ProjectService.createProject with the default main person
FreshProject ==
  [name          |-> HouseName,
   mainPersonId  |-> Huvudperson,
   members       |-> <<Member(Huvudperson, FreshName, 0, <<>>, <<>>, Null)>>,
   relationships |-> <<>>,
   settings      |-> DefaultSettings,
   metadata      |-> [antal_personer |-> 1, antal_generationer |-> 1,
                      senaste_tillagg |-> Null]]

Outcome(proj, inh, kind, errs) ==
  [project |-> proj, inherited |-> inh,
   returned |-> [kind |-> kind, errors |-> errs]]

\* project.members[id] for a key of the map
OwnMember(proj, id) ==
  proj.members[CHOOSE i \in DOMAIN proj.members : proj.members[i].id = id]

\* list.filter(x => x !== id)
Without(list, id) == SelectSeq(list, LAMBDA x : x # id)

\* if (!list.includes(id)) list.push(id)
PushNew(list, id) == IF id \in Range(list) THEN list ELSE Append(list, id)

\* new Set(members.map(m => m.generation)).size
GenerationCount(members) ==
  Cardinality({members[i].generation : i \in DOMAIN members})

LowerCase(c) ==
  CASE c = "B" -> "b" [] c = "C" -> "c" [] c = "N" -> "n" [] OTHER -> c

\* \w of a regular expression
WordChars ==
  {"a", "b", "c", "d", "e", "f", "g", "h", "i", "j", "k", "l", "m", "n",
   "o", "p", "q", "r", "s", "t", "u", "v", "w", "x", "y", "z",
   "B", "C", "N", "_", "0", "1", "2", "3", "4", "5", "6", "7", "8", "9"}

\* runs of ch collapsed into one repl
RECURSIVE CollapseRuns(_, _, _)
CollapseRuns(text, ch, repl) ==
  IF text = <<>> THEN <<>>
  ELSE IF Head(text) # ch
       THEN <<Head(text)>> \o CollapseRuns(Tail(text), ch, repl)
       ELSE IF Len(text) > 1 /\ text[2] = ch
            THEN CollapseRuns(Tail(text), ch, repl)
            ELSE <<repl>> \o CollapseRuns(Tail(text), ch, repl)

RECURSIVE TrimLeft(_, _)
TrimLeft(text, ch) ==
  IF text # <<>> /\ Head(text) = ch THEN TrimLeft(Tail(text), ch) ELSE text

RECURSIVE TrimRight(_, _)
TrimRight(text, ch) ==
  IF text # <<>> /\ text[Len(text)] = ch
  THEN TrimRight(SubSeq(text, 1, Len(text) - 1), ch)
  ELSE text

\* decimal digits of a counter below ten
Digits(n) ==
  <<CASE n = 1 -> "1" [] n = 2 -> "2" [] n = 3 -> "3" [] n = 4 -> "4"
      [] n = 5 -> "5" [] n = 6 -> "6" [] n = 7 -> "7" [] n = 8 -> "8"
      [] OTHER -> "9">>

\* the while loop of generateMemberId
RECURSIVE UniqueId(_, _, _, _)
UniqueId(proj, baseId, id, counter) ==
  IF HasMember(proj, id)
  THEN UniqueId(proj, baseId, baseId \o <<"_">> \o Digits(counter),
                counter + 1)
  ELSE id

\* random stands for Math.random().toString(36).substring(2, 6)
generateMemberId(name, proj, random) ==
  LET lower    == [i \in DOMAIN name |-> LowerCase(name[i])]
      kept     == SelectSeq(lower,
                    LAMBDA c : c \in WordChars \/ c = " " \/ c = "-")
      spaced   == CollapseRuns(kept, " ", "_")
      single   == CollapseRuns(spaced, "_", "_")
      trimmed  == TrimRight(TrimLeft(single, "_"), "_")
      lettered == IF trimmed = <<>>
                     \/ CharCode(Head(trimmed)) < 97
                     \/ CharCode(Head(trimmed)) > 122
                  THEN <<"p", "e", "r", "s", "o", "n", "_">> \o trimmed
                  ELSE trimmed
      baseId   == IF Len(lettered) < 2 THEN lettered \o <<"_">> \o random
                  ELSE lettered
  IN UniqueId(proj, baseId, baseId, 1)

\* /^[a-z][a-z0-9_]*$/.test(id) && id.length >= 2
isValidId(id) ==
  /\ id # <<>>
  /\ CharCode(Head(id)) >= 97 /\ CharCode(Head(id)) <= 122
  /\ \A i \in DOMAIN id :
        id[i] \in (WordChars \ {"B", "C", "N"})
  /\ Len(id) >= 2

isValidGeneration(generation) == generation >= -10 /\ generation <= 10

\* FamilyMemberValidation.validateMember
validateMember(member) ==
  (IF member.id = Null THEN <<"id-required">>
   ELSE IF ~isValidId(member.id) THEN <<"id-invalid">> ELSE <<>>)
  \o (IF IsBlank(member.namn) THEN <<"name-required">> ELSE <<>>)
  \o (IF ~isValidGeneration(member.generation)
      THEN <<"generation-invalid">> ELSE <<>>)

\* project.members[id].partner; the inherited object has the properties
\* written to it earlier and no others
partnerOf(proj, inh, id) ==
  IF IsMember(proj, id) THEN OwnMember(proj, id).partner ELSE inh.partner

\* the loop of wouldCreateCircularReference
RECURSIVE CircularSearch(_, _, _, _)
CircularSearch(proj, parentId, queue, visited) ==
  IF queue = <<>> THEN FALSE
  ELSE LET currentId == Head(queue)
       IN IF currentId \in visited
          THEN CircularSearch(proj, parentId, Tail(queue), visited)
          ELSE IF ~IsMember(proj, currentId)
          THEN CircularSearch(proj, parentId, Tail(queue),
                              visited \cup {currentId})
          ELSE IF parentId \in Range(OwnMember(proj, currentId).barn)
          THEN TRUE
          ELSE CircularSearch(proj, parentId,
                              Tail(queue) \o OwnMember(proj, currentId).barn,
                              visited \cup {currentId})

wouldCreateCircularReference(proj, parentId, childId) ==
  CircularSearch(proj, parentId, <<childId>>, {})

\* a comparison with the undefined generation of the inherited object is
\* false
generationAtLeast(proj, id1, id2) ==
  /\ IsMember(proj, id1) /\ IsMember(proj, id2)
  /\ OwnMember(proj, id1).generation >= OwnMember(proj, id2).generation

generationsApart(proj, id1, id2) ==
  /\ IsMember(proj, id1) /\ IsMember(proj, id2)
  /\ LET d == OwnMember(proj, id1).generation
                - OwnMember(proj, id2).generation
     IN d > 1 \/ d < -1

\* the parent/child case without the generation comparison
validateRelationship_anyGeneration(proj, inh, personId1, personId2, type) ==
  IF personId1 = personId2 THEN <<"self">>
  ELSE IF type = "partner"
  THEN (IF partnerOf(proj, inh, personId1) \notin {Null, personId2}
        THEN <<"person1-has-partner">> ELSE <<>>)
       \o (IF partnerOf(proj, inh, personId2) \notin {Null, personId1}
           THEN <<"person2-has-partner">> ELSE <<>>)
       \o (IF generationsApart(proj, personId1, personId2)
           THEN <<"generations-apart">> ELSE <<>>)
  ELSE <<>>

\* the partner case without the look at the partners the two already have
validateRelationship_anyPartner(proj, inh, personId1, personId2, type) ==
  IF personId1 = personId2 THEN <<"self">>
  ELSE IF type = "partner"
  THEN (IF generationsApart(proj, personId1, personId2)
        THEN <<"generations-apart">> ELSE <<>>)
  ELSE LET parentId == IF type = "parent" THEN personId1 ELSE personId2
           childId  == IF type = "parent" THEN personId2 ELSE personId1
       IN (IF wouldCreateCircularReference(proj, parentId, childId)
           THEN <<"circular">> ELSE <<>>)
          \o (IF generationAtLeast(proj, parentId, childId)
              THEN <<"parent-generation">> ELSE <<>>)

\* the errors of validateRelationship; the search below a child that is
\* the inherited object reads its missing child list, a TypeError
validateRelationship(proj, inh, personId1, personId2, type) ==
  IF personId1 = personId2 THEN <<"self">>
  ELSE IF type = "partner"
  THEN (IF partnerOf(proj, inh, personId1) \notin {Null, personId2}
        THEN <<"person1-has-partner">> ELSE <<>>)
       \o (IF partnerOf(proj, inh, personId2) \notin {Null, personId1}
           THEN <<"person2-has-partner">> ELSE <<>>)
       \o (IF generationsApart(proj, personId1, personId2)
           THEN <<"generations-apart">> ELSE <<>>)
  ELSE LET parentId == IF type = "parent" THEN personId1 ELSE personId2
           childId  == IF type = "parent" THEN personId2 ELSE personId1
       IN IF ~IsMember(proj, childId) THEN <<"TypeError">>
          ELSE (IF wouldCreateCircularReference(proj, parentId, childId)
                THEN <<"circular">> ELSE <<>>)
               \o (IF generationAtLeast(proj, parentId, childId)
                   THEN <<"parent-generation">> ELSE <<>>)

validateGenerationConsistency(proj, memberId) ==
  LET member == OwnMember(proj, memberId)
      Parents == SelectSeq(member.foraldrar,
                   LAMBDA parentId :
                     /\ IsMember(proj, parentId)
                     /\ OwnMember(proj, parentId).generation
                          >= member.generation)
      Children == SelectSeq(member.barn,
                    LAMBDA childId :
                      /\ IsMember(proj, childId)
                      /\ OwnMember(proj, childId).generation
                           <= member.generation)
  IN [i \in DOMAIN Parents |-> "parent-generation"]
     \o [i \in DOMAIN Children |-> "child-generation"]

\* the members and the inherited object after removeAllRelationships
removeAllRelationships(proj, inh, memberId) ==
  LET member == OwnMember(proj, memberId)
      Cleared(x) ==
        [x EXCEPT
           !.barn = IF x.id \in Range(member.foraldrar)
                    THEN Without(x.barn, memberId) ELSE x.barn,
           !.foraldrar = IF x.id \in Range(member.barn)
                         THEN Without(x.foraldrar, memberId)
                         ELSE x.foraldrar,
           !.partner = IF member.partner # Null /\ x.id = member.partner
                       THEN Null ELSE x.partner]
  IN [project   |-> [proj EXCEPT !.members =
                       [i \in DOMAIN proj.members |->
                          Cleared(proj.members[i])]],
      inherited |-> IF member.partner # Null
                       /\ ~IsMember(proj, member.partner)
                       /\ HasMember(proj, member.partner)
                    THEN [inh EXCEPT !.partner = Null] ELSE inh]

\* Object.keys(project.members).length and the generation count
Counted(proj) ==
  [proj EXCEPT !.metadata.antal_personer = Len(proj.members),
               !.metadata.antal_generationer = GenerationCount(proj.members)]

addMember(proj, inh, memberData, random) ==
  LET memberId  == generateMemberId(memberData.namn, proj, random)
      newMember == Member(memberId, memberData.namn, memberData.generation,
                          <<>>, <<>>, Null)
      validationErrors == validateMember(newMember)
  IN IF validationErrors # <<>>
     THEN Outcome(proj, inh, "throws", validationErrors)
     ELSE Outcome(
            Counted([proj EXCEPT
                       !.members = Append(proj.members, newMember),
                       !.metadata.senaste_tillagg = newMember.namn]),
            inh, "value", <<>>)

\* an update that writes the changed member before it validates it
updateMember_savesFirst(proj, inh, memberId, updates) ==
  IF ~HasMember(proj, memberId) THEN Outcome(proj, inh, "null", <<>>)
  ELSE
    LET Applied(m) ==
          [m EXCEPT
             !.namn = IF updates.namn # None THEN updates.namn[1] ELSE @,
             !.generation = IF updates.generation # None
                            THEN updates.generation[1] ELSE @]
        changed == [proj EXCEPT
                      !.members =
                         [i \in DOMAIN proj.members |->
                            IF proj.members[i].id = memberId
                            THEN Applied(proj.members[i])
                            ELSE proj.members[i]]]
        validationErrors == validateMember(OwnMember(changed, memberId))
    IN IF validationErrors # <<>>
       THEN Outcome(changed, inh, "throws", validationErrors)
       ELSE Outcome(changed, inh, "value", <<>>)

\* updates.namn and updates.generation are None when undefined; memberId
\* is a key of the map or no key at all
updateMember(proj, inh, memberId, updates) ==
  IF ~HasMember(proj, memberId) THEN Outcome(proj, inh, "null", <<>>)
  ELSE
    LET Applied(m) ==
          [m EXCEPT
             !.namn = IF updates.namn # None THEN updates.namn[1] ELSE @,
             !.generation = IF updates.generation # None
                            THEN updates.generation[1] ELSE @]
        changed == [proj EXCEPT
                      !.members =
                         [i \in DOMAIN proj.members |->
                            IF proj.members[i].id = memberId
                            THEN Applied(proj.members[i])
                            ELSE proj.members[i]]]
        generationErrors ==
          IF updates.generation # None
          THEN validateGenerationConsistency(changed, memberId) ELSE <<>>
        validationErrors == validateMember(OwnMember(changed, memberId))
    IN IF generationErrors # <<>>
       THEN Outcome(proj, inh, "throws", generationErrors)
       ELSE IF validationErrors # <<>>
       THEN Outcome(proj, inh, "throws", validationErrors)
       ELSE Outcome(
              IF updates.generation # None
              THEN [changed EXCEPT !.metadata.antal_generationer =
                                      GenerationCount(changed.members)]
              ELSE changed,
              inh, "value", <<>>)

\* a removal without the guard on the main person
removeMember_anyone(proj, inh, memberId) ==
  IF ~HasMember(proj, memberId) THEN Outcome(proj, inh, "false", <<>>)
  ELSE IF ~IsMember(proj, memberId)
  THEN Outcome(proj, inh, "throws", <<"TypeError">>)
  ELSE
    LET cleared == removeAllRelationships(proj, inh, memberId)
        kept    == SelectSeq(cleared.project.members,
                             LAMBDA m : m.id # memberId)
        log     == SelectSeq(proj.relationships,
                     LAMBDA rel : rel.person1 # memberId
                                  /\ rel.person2 # memberId)
    IN Outcome(Counted([cleared.project EXCEPT !.members = kept,
                                               !.relationships = log]),
               cleared.inherited, "true", <<>>)

\* removing the inherited key fails in removeAllRelationships, which
\* reads its missing parent list
removeMember(proj, inh, memberId) ==
  IF ~HasMember(proj, memberId) THEN Outcome(proj, inh, "false", <<>>)
  ELSE IF proj.mainPersonId = memberId
  THEN Outcome(proj, inh, "throws", <<"main-person">>)
  ELSE IF ~IsMember(proj, memberId)
  THEN Outcome(proj, inh, "throws", <<"TypeError">>)
  ELSE
    LET cleared == removeAllRelationships(proj, inh, memberId)
        kept    == SelectSeq(cleared.project.members,
                             LAMBDA m : m.id # memberId)
        log     == SelectSeq(proj.relationships,
                     LAMBDA rel : rel.person1 # memberId
                                  /\ rel.person2 # memberId)
    IN Outcome(Counted([cleared.project EXCEPT !.members = kept,
                                               !.relationships = log]),
               cleared.inherited, "true", <<>>)

\* rel joins the two ids, in either direction
Between(rel, id1, id2) ==
  \/ rel.person1 = id1 /\ rel.person2 = id2
  \/ rel.person1 = id2 /\ rel.person2 = id1

\* the relationship log after addRelationship
Logged(log, memberId, relatedPersonId, type) ==
  IF \E i \in DOMAIN log : Between(log[i], memberId, relatedPersonId)
  THEN log
  ELSE Append(log,
              Relationship(IF type = "partner" THEN "marriage"
                           ELSE "parent-child",
                           memberId, relatedPersonId))

\* the switch of addRelationship with the related person left untouched
Linked_oneSided(members, memberId, relatedPersonId, type) ==
  [i \in DOMAIN members |->
     LET m == members[i]
     IN IF m.id # memberId THEN m
        ELSE CASE type = "parent" ->
                    [m EXCEPT !.barn = PushNew(@, relatedPersonId)]
               [] type = "child" ->
                    [m EXCEPT !.foraldrar = PushNew(@, relatedPersonId)]
               [] OTHER -> [m EXCEPT !.partner = relatedPersonId]]

\* the switch of addRelationship on two distinct ids; an id that is not
\* a key of the map leaves the members as they are
Linked(members, memberId, relatedPersonId, type) ==
  [i \in DOMAIN members |->
     LET m == members[i]
     IN IF m.id = memberId
        THEN CASE type = "parent" ->
                    [m EXCEPT !.barn = PushNew(@, relatedPersonId)]
               [] type = "child" ->
                    [m EXCEPT !.foraldrar = PushNew(@, relatedPersonId)]
               [] OTHER -> [m EXCEPT !.partner = relatedPersonId]
        ELSE IF m.id = relatedPersonId
        THEN CASE type = "parent" ->
                    [m EXCEPT !.foraldrar = PushNew(@, memberId)]
               [] type = "child" ->
                    [m EXCEPT !.barn = PushNew(@, memberId)]
               [] OTHER -> [m EXCEPT !.partner = memberId]
        ELSE m]

\* the partner property written to the inherited object
LinkedInherited(proj, inh, memberId, relatedPersonId) ==
  IF ~IsMember(proj, memberId) THEN [inh EXCEPT !.partner = relatedPersonId]
  ELSE IF ~IsMember(proj, relatedPersonId)
  THEN [inh EXCEPT !.partner = memberId]
  ELSE inh

addRelationship(proj, inh, memberId, relationshipData) ==
  LET relatedPersonId == relationshipData.relatedPersonId
      type == relationshipData.type
  IN IF ~HasMember(proj, memberId) \/ ~HasMember(proj, relatedPersonId)
     THEN Outcome(proj, inh, "false", <<>>)
     ELSE
       LET validationErrors ==
             validateRelationship(proj, inh, memberId, relatedPersonId, type)
       IN IF validationErrors # <<>>
          THEN Outcome(proj, inh, "throws", validationErrors)
          ELSE IF type # "partner"
                  /\ (~IsMember(proj, memberId)
                      \/ ~IsMember(proj, relatedPersonId))
          THEN Outcome(proj, inh, "throws", <<"TypeError">>)
          ELSE Outcome(
                 [proj EXCEPT
                    !.members = Linked(@, memberId, relatedPersonId, type),
                    !.relationships =
                       Logged(@, memberId, relatedPersonId, type)],
                 IF type = "partner"
                 THEN LinkedInherited(proj, inh, memberId, relatedPersonId)
                 ELSE inh,
                 "true", <<>>)

\* the switch of removeRelationship
Unlinked(members, memberId, relatedPersonId, type) ==
  LET First(m) ==
        IF m.id # memberId THEN m
        ELSE CASE type = "parent" ->
                    [m EXCEPT !.barn = Without(@, relatedPersonId)]
               [] type = "child" ->
                    [m EXCEPT !.foraldrar = Without(@, relatedPersonId)]
               [] OTHER ->
                    [m EXCEPT !.partner =
                        IF @ = relatedPersonId THEN Null ELSE @]
      Second(m) ==
        IF m.id # relatedPersonId THEN m
        ELSE CASE type = "parent" ->
                    [m EXCEPT !.foraldrar = Without(@, memberId)]
               [] type = "child" ->
                    [m EXCEPT !.barn = Without(@, memberId)]
               [] OTHER ->
                    [m EXCEPT !.partner = IF @ = memberId THEN Null ELSE @]
  IN [i \in DOMAIN members |-> Second(First(members[i]))]

UnlinkedInherited(proj, inh, memberId, relatedPersonId) ==
  IF \/ ~IsMember(proj, memberId) /\ inh.partner = relatedPersonId
     \/ ~IsMember(proj, relatedPersonId) /\ inh.partner = memberId
  THEN [inh EXCEPT !.partner = Null]
  ELSE inh

removeRelationship(proj, inh, memberId, relatedPersonId, type) ==
  IF ~HasMember(proj, memberId) \/ ~HasMember(proj, relatedPersonId)
  THEN Outcome(proj, inh, "false", <<>>)
  ELSE IF type # "partner"
          /\ (~IsMember(proj, memberId) \/ ~IsMember(proj, relatedPersonId))
  THEN Outcome(proj, inh, "throws", <<"TypeError">>)
  ELSE Outcome(
         [proj EXCEPT
            !.members = Unlinked(@, memberId, relatedPersonId, type),
            !.relationships =
               SelectSeq(@, LAMBDA rel :
                              ~Between(rel, memberId, relatedPersonId))],
         IF type = "partner"
         THEN UnlinkedInherited(proj, inh, memberId, relatedPersonId)
         ELSE inh,
         "true", <<>>)

(***************************************************************************)
(* Callers: direct service calls and request handlers                      *)
(***************************************************************************)
\* layout options a caller may pass (request body of /tree/regenerate,
\* constructor argument of LayoutEngine)
LayoutOptions ==
  {NoOverrides,
   [personSpacing |-> 20, marriageSpacing |-> 60, marginLeft |-> 10,
    marginRight |-> 0, marginTop |-> 0, marginBottom |-> 0,
    titleHeight |-> 0, generationSpacing |-> 2]}

\* variant: the render keeps its engine in the service's field
Rendered_engineKept(result) ==
  \E r \in {result} :
     /\ layout' = Some(r.layout)
     /\ config' = Some(r.config)
     /\ svg'    = Some(r.svg)
     /\ layoutEngine' = r.config

\* a render's result handed back to the caller; the engine and the
\* serializer of the render are locals of renderFamilyTree
Rendered(result) ==
  \E r \in {result} :
     /\ layout' = Some(r.layout)
     /\ config' = Some(r.config)
     /\ svg'    = Some(r.svg)
     /\ layoutEngine' = layoutEngine

NothingRendered ==
  /\ layout'  = None
  /\ config'  = None
  /\ svg'     = None
  /\ options' = None
  /\ layoutEngine' = layoutEngine

\* the handler's catch block: 500, no document
Failed ==
  /\ status' = 500
  /\ errors' = None
  /\ NothingRendered

\* variant: the engine stores the grouped member list back in the snapshot
GenerateLayout_writesBack ==
  \E partial \in LayoutOptions :
     /\ status' = 0
     /\ errors' = None
     /\ layout' = Some(generateLayout(project, EngineConfig(partial)))
     /\ config' = Some(EngineConfig(partial))
     /\ svg'    = None
     /\ options' = None
     /\ project' =
          [project EXCEPT !.members =
             Concat([g \in 1..Len(layout'[1].generations) |->
                       layout'[1].generations[g].members])]
     /\ UNCHANGED <<svgFile, layoutEngine, inherited, calls>>

\* new LayoutEngine(config).generateLayout(project)
GenerateLayout ==
  \E partial \in LayoutOptions :
     /\ status' = 0
     /\ errors' = None
     /\ layout' = Some(generateLayout(project, EngineConfig(partial)))
     /\ config' = Some(EngineConfig(partial))
     /\ svg'    = None
     /\ options' = None
     /\ UNCHANGED <<project, svgFile, layoutEngine, inherited, calls>>

\* new SVGRenderingService().validateProject(project)
ValidateProject ==
  /\ status' = 0
  /\ errors' = Some(validateProject(project))
  /\ NothingRendered
  /\ UNCHANGED <<project, svgFile, inherited, calls>>

\* GET /:id/tree/svg
GetTreeSvg ==
  /\ IF getProjectThrows(project) THEN Failed
     ELSE \E validationErrors \in {validateProject(project)} :
             /\ errors' = Some(validationErrors)
             /\ IF Len(validationErrors) > 0
                THEN /\ status' = 400
                     /\ NothingRendered
                ELSE /\ status' = 200
                     /\ options' = Some(NoOverrides)
                     /\ Rendered(renderFamilyTree(project, NoOverrides))
  /\ UNCHANGED <<project, svgFile, inherited, calls>>

\* GET /:id/tree/thumbnail
GetTreeThumbnail ==
  /\ IF getProjectThrows(project) THEN Failed
     ELSE /\ status' = 200
          /\ errors' = None
          /\ options' = Some(thumbnailConfig)
          /\ Rendered(generateThumbnail(project))
  /\ UNCHANGED <<project, svgFile, inherited, calls>>

\* POST /:id/tree/regenerate
PostTreeRegenerate ==
  \E layoutOptions \in LayoutOptions :
     /\ IF getProjectThrows(project) THEN Failed
        ELSE /\ status' = 200
             /\ errors' = None
             /\ options' = Some(layoutOptions)
             /\ Rendered(renderFamilyTree(project, layoutOptions))
     /\ UNCHANGED <<project, svgFile, inherited, calls>>

\* GET /:id/tree/stats
GetTreeStats ==
  /\ IF getProjectThrows(project) THEN Failed
     ELSE /\ status' = 200
          /\ layout' = Some(getLayoutStats(layoutEngine, project))
          /\ config' = Some(EngineConfig(NoOverrides))
          /\ errors' = Some(validateProject(project))
          /\ svg'    = None
          /\ options' = None
          /\ layoutEngine' = layoutEngine
  /\ UNCHANGED <<project, svgFile, inherited, calls>>

\* FamilyMemberIntegrationService.regenerateSVG, run after every member
\* operation and by regenerateSVGManually
\* variant: the file is written from the project read before the change
Regenerated_stale(proj) ==
  /\ status' = 0
  /\ errors' = None
  /\ options' = Some(NoOverrides)
  /\ Rendered(renderFamilyTree(project, NoOverrides))
  /\ svgFile' = svg'

\* regenerateSVG when the stored project is proj
Regenerated(proj) ==
  IF getProjectThrows(proj)
  THEN /\ status' = 0
       /\ errors' = None
       /\ NothingRendered
       /\ svgFile' = svgFile
  ELSE /\ status' = 0
       /\ errors' = None
       /\ options' = Some(NoOverrides)
       /\ Rendered(renderFamilyTree(proj, NoOverrides))
       /\ svgFile' = svg'

regenerateSVG ==
  /\ Regenerated(project)
  /\ UNCHANGED <<project, inherited, calls>>

Next ==
  \/ GenerateLayout
  \/ ValidateProject
  \/ GetTreeSvg
  \/ GetTreeThumbnail
  \/ PostTreeRegenerate
  \/ GetTreeStats
  \/ regenerateSVG

\* no FamilyMemberService call is between its read and its write
NoCalls == <<>>

NoResults ==
  /\ status = 0
  /\ errors = None
  /\ layout = None
  /\ config = None
  /\ svg = None
  /\ svgFile = None
  /\ options = None
  /\ layoutEngine = EngineConfig(NoOverrides)
  /\ inherited = [partner |-> Null]
  /\ calls = NoCalls

Init ==
  /\ project \in LayoutSnapshots
  /\ NoResults

Spec == Init /\ [][Next]_vars

InitMarriage ==
  /\ project \in MarriageSnapshots
  /\ NoResults

SpecMarriage == InitMarriage /\ [][Next]_vars

InitEscape ==
  /\ project \in EscapeSnapshots
  /\ NoResults

SpecEscape == InitEscape /\ [][Next]_vars

InitRaw ==
  /\ project \in RawSnapshots
  /\ NoResults

SpecRaw == InitRaw /\ [][Next]_vars

InitConfig ==
  /\ project \in ConfigSnapshots
  /\ NoResults

SpecConfig == InitConfig /\ [][Next]_vars

InitTall ==
  /\ project \in TallSnapshots
  /\ NoResults

SpecTall == InitTall /\ [][Next]_vars

InitWide ==
  /\ project \in WideSnapshots
  /\ NoResults

SpecWide == InitWide /\ [][Next]_vars

(***************************************************************************)
(* FamilyMemberService operations on a created project                     *)
(***************************************************************************)
Bo1 == <<"b", "o", "_", "1">>

\* the ids the members of the model can get; the map never holds more
\* members than this
MemberPool == {Huvudperson, Bo, Bo1}

\* names passed to addMember and updateMember: one that gives the id bo
\* and a blank one
MemberNames == {<<"B", "o">>, <<" ">>}

\* generations passed to addMember and updateMember; 11 is out of range
Generations == {0, 1, 11}

Randoms == {<<"7", "q", "2", "x">>}

Types == {"parent", "child", "partner"}

\* an id that is no key of the map, own or inherited
AbsentId == Cal

MemberIds == {project.members[i].id : i \in DOMAIN project.members}

Done(outcome) ==
  /\ project'   = outcome.project
  /\ inherited' = outcome.inherited
  /\ UNCHANGED <<status, errors, layout, config, svg, svgFile, options,
                 layoutEngine, calls>>

AddMember ==
  /\ Len(project.members) < Cardinality(MemberPool)
  /\ \E namn \in MemberNames, generation \in Generations, random \in Randoms :
       Done(addMember(project, inherited,
                      [namn |-> namn, generation |-> generation], random))

\* updates passed to updateMember: a field is None when undefined
Updates ==
  {[namn |-> namn, generation |-> generation] :
     namn \in {None, Some(<<" ">>)},
     generation \in {None} \cup {Some(g) : g \in Generations}}

UpdateMember ==
  \E memberId \in MemberIds \cup {AbsentId}, updates \in Updates :
     Done(updateMember(project, inherited, memberId, updates))

RemoveMember ==
  \E memberId \in MemberIds \cup InheritedKeys \cup {AbsentId} :
     Done(removeMember(project, inherited, memberId))

AddRelationship ==
  \E memberId \in MemberIds \cup {AbsentId},
     relatedPersonId \in MemberIds \cup InheritedKeys, type \in Types :
       Done(addRelationship(project, inherited, memberId,
                            [type |-> type,
                             relatedPersonId |-> relatedPersonId]))

RemoveRelationship ==
  \E memberId \in MemberIds \cup {AbsentId},
     relatedPersonId \in MemberIds \cup InheritedKeys, type \in Types :
       Done(removeRelationship(project, inherited, memberId,
                               relatedPersonId, type))

NextMembers ==
  \/ AddMember
  \/ UpdateMember
  \/ RemoveMember
  \/ AddRelationship
  \/ RemoveRelationship

InitMembers ==
  /\ project = FreshProject
  /\ NoResults

SpecMembers == InitMembers /\ [][NextMembers]_vars

(***************************************************************************)
(* Parent and child links in a project of up to four persons               *)
(***************************************************************************)
Bo2 == <<"b", "o", "_", "2">>

FamilyPool == {Huvudperson, Bo, Bo1, Bo2}

FamilyAddMember ==
  /\ Len(project.members) < Cardinality(FamilyPool)
  /\ \E generation \in {0, 1}, random \in Randoms :
       Done(addMember(project, inherited,
                      [namn |-> <<"B", "o">>, generation |-> generation],
                      random))

FamilyAddRelationship ==
  \E memberId \in MemberIds, relatedPersonId \in MemberIds,
     type \in {"parent", "child"} :
       Done(addRelationship(project, inherited, memberId,
                            [type |-> type,
                             relatedPersonId |-> relatedPersonId]))

FamilyRemoveRelationship ==
  \E memberId \in MemberIds, relatedPersonId \in MemberIds,
     type \in {"parent", "child"} :
       Done(removeRelationship(project, inherited, memberId,
                               relatedPersonId, type))

NextFamily ==
  \/ FamilyAddMember
  \/ FamilyAddRelationship
  \/ FamilyRemoveRelationship

SpecFamily == InitMembers /\ [][NextFamily]_vars

(***************************************************************************)
(* FamilyMemberIntegrationService: a member operation, then regenerateSVG  *)
(* when the operation returned a member or true                            *)
(***************************************************************************)
\* the operation returned null or false, or threw: no render, no write
NotRegenerated ==
  /\ status' = 0
  /\ errors' = None
  /\ NothingRendered
  /\ svgFile' = svgFile

Integrated(outcome) ==
  \E o \in {outcome} :
     /\ project'   = o.project
     /\ inherited' = o.inherited
     /\ IF o.returned.kind \in {"value", "true"}
        THEN Regenerated(o.project)
        ELSE NotRegenerated
     /\ UNCHANGED calls

\* names and generations passed through the integration service
IntegrationNames == {<<"B", "o">>}

IntegrationGenerations == {0, 1}

\* relationship types passed through the integration service
IntegrationTypes == {"parent", "partner"}

\* renames passed to updateMember: a name, or a blank one that is rejected
Renames ==
  {[namn |-> Some(n), generation |-> None] :
     n \in IntegrationNames \cup {<<" ">>}}

IntegrationAddMember ==
  /\ Len(project.members) < Cardinality(MemberPool)
  /\ \E namn \in IntegrationNames, generation \in IntegrationGenerations,
        random \in Randoms :
       Integrated(addMember(project, inherited,
                            [namn |-> namn, generation |-> generation],
                            random))

IntegrationUpdateMember ==
  \E memberId \in MemberIds \cup {AbsentId}, updates \in Renames :
     Integrated(updateMember(project, inherited, memberId, updates))

IntegrationRemoveMember ==
  \E memberId \in MemberIds :
     Integrated(removeMember(project, inherited, memberId))

IntegrationAddRelationship ==
  \E memberId \in MemberIds, relatedPersonId \in MemberIds,
     type \in IntegrationTypes :
     Integrated(addRelationship(project, inherited, memberId,
                                [type |-> type,
                                 relatedPersonId |-> relatedPersonId]))

IntegrationRemoveRelationship ==
  \E memberId \in MemberIds, relatedPersonId \in MemberIds,
     type \in IntegrationTypes :
     Integrated(removeRelationship(project, inherited, memberId,
                                   relatedPersonId, type))

NextIntegration ==
  \/ IntegrationAddMember
  \/ IntegrationUpdateMember
  \/ IntegrationRemoveMember
  \/ IntegrationAddRelationship
  \/ IntegrationRemoveRelationship

SpecIntegration == InitMembers /\ [][NextIntegration]_vars

(***************************************************************************)
(* Two FamilyMemberService.addMember calls in flight on one project        *)
(*                                                                         *)
(* A call awaits getProject (the file is read and parsed into an object of *)
(* the call's own), then runs without interruption up to saveProject,      *)
(* which writes the whole object back.  Other calls can run between the    *)
(* read and the write.  The read and the write of the file are taken as    *)
(* single steps.                                                           *)
(***************************************************************************)
CallIds == {1, 2}

CallNames == {<<"B", "o">>, <<"C", "a", "l">>}

CallGenerations == {0, 1}

Idle == [pc |-> "idle"]

\* const project = await this.projectService.getProject(projectId)
ReadProject(c) ==
  /\ calls[c].pc = "idle"
  /\ ~getProjectThrows(project)
  /\ \E namn \in CallNames, generation \in CallGenerations :
        calls' = [calls EXCEPT
                    ![c] = [pc         |-> "read",
                            memberData |-> [namn |-> namn,
                                            generation |-> generation],
                            project    |-> project]]
  /\ UNCHANGED <<project, status, errors, layout, config, svg, svgFile,
                 options, layoutEngine, inherited>>

\* the rest of addMember, from generateMemberId to the end of saveProject
SaveProject(c) ==
  /\ calls[c].pc = "read"
  /\ \E random \in Randoms :
        \E outcome \in {addMember(calls[c].project, inherited,
                                   calls[c].memberData, random)} :
           IF outcome.returned.kind = "throws"
           THEN /\ calls' = [calls EXCEPT ![c] = [pc |-> "thrown"]]
                /\ UNCHANGED <<project, inherited>>
           ELSE /\ project'   = outcome.project
                /\ inherited' = outcome.inherited
                /\ calls' =
                     [calls EXCEPT
                        ![c] = [pc       |-> "done",
                                returned |->
                                  outcome.project.members[
                                    Len(outcome.project.members)]]]
  /\ UNCHANGED <<status, errors, layout, config, svg, svgFile, options,
                 layoutEngine>>

NextCalls ==
  \/ \E c \in CallIds : ReadProject(c)
  \/ \E c \in CallIds : SaveProject(c)

InitCalls ==
  /\ project = FreshProject
  /\ status = 0
  /\ errors = None
  /\ layout = None
  /\ config = None
  /\ svg = None
  /\ svgFile = None
  /\ options = None
  /\ layoutEngine = EngineConfig(NoOverrides)
  /\ inherited = [partner |-> Null]
  /\ calls = [c \in CallIds |-> Idle]

SpecCalls == InitCalls /\ [][NextCalls]_vars

(***************************************************************************)
(* Properties of the layout (specification Spec)                           *)
(***************************************************************************)
DistinctGenerations(members) == {members[i].generation : i \in DOMAIN members}

\* zero-based position of gen among the distinct generation values
BandIndexOf(members, gen) ==
  Cardinality({g \in DistinctGenerations(members) : g < gen})

\* placements of the band-th generation band, in placement order
BandPeople(lay, band) ==
  SelectSeq(lay.people,
            LAMBDA p : p.member.generation = lay.generations[band].generation)

LeftEdge(placement) == placement.x - placement.textWidth \div 2

\* C1: every layout's canvas is at least 595 wide and 842 high, for every
\* snapshot (the empty member map included) and every configuration.
C1_MinimumPageSize ==
  layout # None =>
    /\ layout[1].dimensions.width >= 595
    /\ layout[1].dimensions.height >= 842

\* a sparse, non-empty tree whose bounding box is narrower than the page
C1_Witness ==
  /\ layout # None
  /\ Len(layout[1].people) > 0
  /\ \A i, j \in DOMAIN layout[1].people :
        layout[1].people[i].x - layout[1].people[j].x < 300
  /\ layout[1].dimensions.width = 595

\* C2: every placement's y is titleHeight + marginTop + bandIndex *
\* generationSpacing, bandIndex being the rank of the person's generation
\* among the distinct generations; the member order plays no part.
C2_BandY ==
  layout # None =>
    \A i \in DOMAIN layout[1].people :
       layout[1].people[i].y =
         config[1].titleHeight + config[1].marginTop
         + BandIndexOf(project.members,
                       layout[1].people[i].member.generation)
           * config[1].generationSpacing

\* members listed youngest first, with a gap in the generation values
C2_Witness ==
  /\ layout # None
  /\ \E i, j \in DOMAIN project.members :
        i < j /\ project.members[i].generation > project.members[j].generation
  /\ \E i \in DOMAIN layout[1].people :
        BandIndexOf(project.members, layout[1].people[i].member.generation)
          # layout[1].people[i].member.generation

\* C3: the bands partition the members by generation value: each member is
\* in exactly one band, of its own generation; no band is empty; there is
\* one band per distinct generation; bands are strictly ascending.
C3_BandsPartition ==
  layout # None =>
    LET bands == layout[1].generations
        Slots == UNION {{<<b, k>> : k \in DOMAIN bands[b].members} :
                        b \in DOMAIN bands}
    IN /\ \A m \in DOMAIN project.members :
             Cardinality({s \in Slots :
                bands[s[1]].members[s[2]] = project.members[m]}) = 1
       /\ \A s \in Slots :
             /\ bands[s[1]].members[s[2]] \in Range(project.members)
             /\ bands[s[1]].members[s[2]].generation = bands[s[1]].generation
       /\ \A b \in DOMAIN bands : Len(bands[b].members) > 0
       /\ Len(bands) = Cardinality(DistinctGenerations(project.members))
       /\ \A b \in 1..(Len(bands) - 1) :
             bands[b].generation < bands[b + 1].generation

\* two bands, one of them holding two members
C3_Witness ==
  /\ layout # None
  /\ Len(layout[1].generations) >= 2
  /\ \E b \in DOMAIN layout[1].generations :
        Len(layout[1].generations[b].members) >= 2

\* C4: between consecutive members of a band the cursor advances by the
\* label width plus marriageSpacing if the next member is this member's
\* partner, and by the label width plus personSpacing otherwise.
C4_NextPartnerGap ==
  layout # None =>
    \A b \in DOMAIN layout[1].generations :
       LET ps == BandPeople(layout[1], b)
       IN \A i \in 1..(Len(ps) - 1) :
             LeftEdge(ps[i + 1]) =
               LeftEdge(ps[i]) + ps[i].textWidth
               + (IF ps[i + 1].member.id = ps[i].member.partner
                  THEN config[1].marriageSpacing
                  ELSE config[1].personSpacing)

\* C5 as stated: the first label of every band starts at marginLeft.
C5_StartsAtLeftMargin ==
  layout # None =>
    \A b \in DOMAIN layout[1].generations :
       LeftEdge(BandPeople(layout[1], b)[1]) = config[1].marginLeft

\* label widths of a band plus the gaps between neighbours: marriageSpacing
\* where one neighbour is the other's partner, personSpacing elsewhere
RECURSIVE ContentWidth(_, _)
ContentWidth(members, cfg) ==
  IF members = <<>> THEN 0
  ELSE Len(Head(members).namn) * 8
       + (IF Len(members) = 1 THEN 0
          ELSE IF Head(members).partner = members[2].id
                  \/ members[2].partner = Head(members).id
               THEN cfg.marriageSpacing
               ELSE cfg.personSpacing)
       + ContentWidth(Tail(members), cfg)

\* C5 (amended): the first label of a band starts at marginLeft when the
\* band's content is at least 400 wide, and otherwise half of the
\* remainder of 400 to the right of marginLeft.
C5_CentredInBaseWidth ==
  layout # None =>
    \A b \in DOMAIN layout[1].generations :
       LET width == ContentWidth(layout[1].generations[b].members, config[1])
       IN LeftEdge(BandPeople(layout[1], b)[1]) =
            config[1].marginLeft
            + (IF width >= 400 THEN 0 ELSE (400 - width) \div 2)

\* a band of two or more members pushed right of marginLeft
C5_Witness ==
  /\ layout # None
  /\ \E b \in DOMAIN layout[1].generations :
        /\ Len(layout[1].generations[b].members) >= 2
        /\ LeftEdge(BandPeople(layout[1], b)[1]) > config[1].marginLeft

\* the (child, parent) pairs of the snapshot, in member and list order
ParentPairs(members) ==
  Concat([m \in 1..Len(members) |->
            [k \in 1..Len(members[m].foraldrar) |->
               <<members[m].id, members[m].foraldrar[k]>>]])

AnchorX(lay, id) ==
  (CHOOSE p \in Range(lay.people) : p.member.id = id).x

\* C6: there is exactly one parent-child connection per (person, parent id)
\* pair of the snapshot, running from the parent's anchor x to the child's.
C6_OneConnectionPerParent ==
  layout # None =>
    LET pairs == ParentPairs(project.members)
        conns == layout[1].connections
    IN /\ Len(conns) = Len(pairs)
       /\ \A k \in DOMAIN conns :
             /\ conns[k].type = "parent-child"
             /\ conns[k].x1 = AnchorX(layout[1], pairs[k][2])
             /\ conns[k].x2 = AnchorX(layout[1], pairs[k][1])

\* two partnered parents with one shared child: two connections
C6_Witness ==
  /\ layout # None
  /\ Len(layout[1].connections) = 2
  /\ \E c, p, q \in DOMAIN project.members :
        /\ p # q
        /\ project.members[c].foraldrar
             = <<project.members[p].id, project.members[q].id>>
        /\ project.members[p].partner = project.members[q].id
        /\ project.members[q].partner = project.members[p].id

(***************************************************************************)
(* Marriage connections (specification SpecMarriage)                       *)
(***************************************************************************)
PartnerSymmetric(members) ==
  \A i \in DOMAIN members :
     members[i].partner # Null =>
       \E j \in DOMAIN members :
          /\ members[j].id = members[i].partner
          /\ members[j].partner = members[i].id

Couples(members) ==
  {{members[i].id, members[i].partner} :
     i \in {j \in DOMAIN members : members[j].partner # Null}}

\* C7: with a symmetric partner relation there is exactly one marriage
\* connection per couple, whatever the member ids and the member order.
C7_OneMarriagePerCouple ==
  (layout # None /\ PartnerSymmetric(project.members)) =>
    LET ms == layout[1].marriages
    IN /\ Len(ms) = Cardinality(Couples(project.members))
       /\ \A c \in Couples(project.members) :
             Cardinality({k \in DOMAIN ms :
                {ms[k].person1.member.id, ms[k].person2.member.id} = c}) = 1

(***************************************************************************)
(* Escaping (specification SpecEscape)                                     *)
(***************************************************************************)
EscapeSequences ==
  [amp  |-> [seq |-> <<"&", "a", "m", "p", ";">>, char |-> "&"],
   lt   |-> [seq |-> <<"&", "l", "t", ";">>, char |-> "<"],
   gt   |-> [seq |-> <<"&", "g", "t", ";">>, char |-> ">"],
   quot |-> [seq |-> <<"&", "q", "u", "o", "t", ";">>, char |-> "\""],
   apos |-> [seq |-> <<"&", "#", "x", "2", "7", ";">>, char |-> "'"]]

StartsWith(text, i, seq) ==
  /\ i + Len(seq) - 1 <= Len(text)
  /\ SubSeq(text, i, i + Len(seq) - 1) = seq

\* no raw < > " ' and every & begins one of the five escape sequences
WellEscaped(text) ==
  \A i \in DOMAIN text :
     /\ text[i] \notin {"<", ">", "\"", "'"}
     /\ text[i] = "&" =>
          \E e \in DOMAIN EscapeSequences :
             StartsWith(text, i, EscapeSequences[e].seq)

\* the five escape sequences replaced back, reading left to right
RECURSIVE Unescape(_)
Unescape(text) ==
  IF text = <<>> THEN <<>>
  ELSE IF \E e \in DOMAIN EscapeSequences :
             StartsWith(text, 1, EscapeSequences[e].seq)
       THEN LET e == CHOOSE f \in DOMAIN EscapeSequences :
                       StartsWith(text, 1, EscapeSequences[f].seq)
            IN <<EscapeSequences[e].char>>
               \o Unescape(SubSeq(text, Len(EscapeSequences[e].seq) + 1,
                                  Len(text)))
       ELSE <<Head(text)>> \o Unescape(Tail(text))

\* C8: the title and every member's text in a document are well escaped
\* and unescape to the project name and the member's name.
C8_EscapedText ==
  svg # None =>
    /\ WellEscaped(svg[1].title)
    /\ Unescape(svg[1].title) = project.name
    /\ Len(svg[1].people) = Len(layout[1].people)
    /\ \A i \in DOMAIN svg[1].people :
          /\ WellEscaped(svg[1].people[i].text)
          /\ Unescape(svg[1].people[i].text) = layout[1].people[i].member.namn

\* a document for a name holding an ampersand and another reserved character
C8_Witness ==
  /\ svg # None
  /\ Len(svg[1].people) = 1
  /\ "&" \in Range(project.members[1].namn)
  /\ "<" \in Range(project.members[1].namn)
  /\ "&" \in Range(project.name)

(***************************************************************************)
(* Validation (specification SpecRaw)                                      *)
(***************************************************************************)
\* the structural violations of a snapshot, one tuple per violation
Violations(proj) ==
  LET ms == proj.members
  IN (IF IsMember(proj, proj.mainPersonId) THEN {}
      ELSE {<<"main", proj.mainPersonId>>})
     \cup {<<"own-parent", ms[m].id>> :
             m \in {n \in DOMAIN ms : ms[n].id \in Range(ms[n].foraldrar)}}
     \cup {<<"own-child", ms[m].id>> :
             m \in {n \in DOMAIN ms : ms[n].id \in Range(ms[n].barn)}}
     \cup {<<"own-partner", ms[m].id>> :
             m \in {n \in DOMAIN ms : ms[n].partner = ms[n].id}}
     \cup UNION {{<<"parent-missing", ms[m].id, ms[m].foraldrar[k]>> :
                    k \in {j \in DOMAIN ms[m].foraldrar :
                             ~IsMember(proj, ms[m].foraldrar[j])}} :
                 m \in DOMAIN ms}
     \cup UNION {{<<"child-missing", ms[m].id, ms[m].barn[k]>> :
                    k \in {j \in DOMAIN ms[m].barn :
                             ~IsMember(proj, ms[m].barn[j])}} :
                 m \in DOMAIN ms}
     \cup {<<"partner-missing", ms[m].id, ms[m].partner>> :
             m \in {n \in DOMAIN ms :
                      ms[n].partner # Null /\ ~IsMember(proj, ms[n].partner)}}

\* C9: validateProject returns the empty list exactly for the snapshots
\* without a structural violation, and otherwise one message per violation.
C9_ValidationComplete ==
  errors # None =>
    /\ (errors[1] = <<>>) <=> (Violations(project) = {})
    /\ Len(errors[1]) = Cardinality(Violations(project))

\* C10: a document is returned or stored only for a snapshot whose
\* validation error list is empty.
C10_RenderOnlyWhenValid ==
  /\ svg # None => validateProject(project) = <<>>
  /\ svgFile # None => validateProject(project) = <<>>

(***************************************************************************)
(* Effective configuration (specification SpecConfig)                      *)
(***************************************************************************)
\* spacing values per preset and orientation
SpacingLayer(settings) ==
  LET spacing   == settings.layout.spacing
      landscape == settings.orientation = "landscape"
  IN CASE spacing = "tight" /\ ~landscape ->
            [generationSpacing |-> 60, personSpacing |-> 80,
             marriageSpacing |-> 30]
       [] spacing = "tight" /\ landscape ->
            [generationSpacing |-> 48, personSpacing |-> 96,
             marriageSpacing |-> 30]
       [] spacing = "spacious" /\ ~landscape ->
            [generationSpacing |-> 100, personSpacing |-> 150,
             marriageSpacing |-> 50]
       [] spacing = "spacious" /\ landscape ->
            [generationSpacing |-> 80, personSpacing |-> 180,
             marriageSpacing |-> 50]
       [] spacing = "comfortable" /\ landscape ->
            [generationSpacing |-> 64, personSpacing |-> 144]
       [] OTHER -> [k \in {} |-> 0]

\* values taken from the project's font and theme settings
StyleLayer(settings) ==
  [fontSize   |-> IF settings.font.size.names = 0 THEN 16
                  ELSE settings.font.size.names,
   fontFamily |-> settings.font.family,
   lineColor  |-> settings.theme.colors.lines]

\* the first layer, from the left, that defines the parameter
FirstOf(layers, k) ==
  layers[CHOOSE i \in DOMAIN layers :
           /\ k \in DOMAIN layers[i]
           /\ \A j \in 1..(i - 1) : k \notin DOMAIN layers[j]][k]

\* the render used the given value of every parameter: it is the recorded
\* configuration, and the band rows, strokes and font sizes follow it
RenderUses(Value(_)) ==
  /\ DOMAIN config[1] = DOMAIN DefaultConfig
  /\ \A k \in DOMAIN config[1] : config[1][k] = Value(k)
  /\ \A b \in DOMAIN layout[1].generations :
        layout[1].generations[b].yPosition =
          Value("titleHeight") + Value("marginTop")
          + (b - 1) * Value("generationSpacing")
  /\ \A i \in DOMAIN svg[1].people :
        svg[1].people[i].fontSize = Value("fontSize")
  /\ \A i \in DOMAIN svg[1].marriages :
        svg[1].marriages[i].stroke = Value("lineColor")

\* C11 as stated: every parameter of a render is the caller's override,
\* else the preset's value after the orientation adjustment, else the
\* built-in default.
C11_ThreeLayers ==
  svg # None =>
    LET Value(k) == FirstOf(<<options[1], SpacingLayer(project.settings),
                              DefaultConfig>>, k)
    IN RenderUses(Value)

\* C11 (amended): every parameter of a render is the caller's override,
\* else the project's value (font size, font family and line colour from
\* the font and theme settings; generation, person and marriage spacing
\* from the preset, the landscape factor applied to the preset's or the
\* default generation and person spacing), else the built-in default.
C11_LayeredConfig ==
  svg # None =>
    LET Value(k) == FirstOf(<<options[1], StyleLayer(project.settings),
                              SpacingLayer(project.settings),
                              DefaultConfig>>, k)
    IN RenderUses(Value)

\* a landscape render of a restyled project with a preset, the caller
\* overriding the generation spacing but not the marriage spacing
C11_Witness ==
  /\ svg # None
  /\ project.settings.orientation = "landscape"
  /\ project.settings.layout.spacing = "spacious"
  /\ project.settings.font.size.names = 14
  /\ "generationSpacing" \in DOMAIN options[1]
  /\ "marriageSpacing" \notin DOMAIN options[1]
  /\ config[1].generationSpacing = options[1].generationSpacing
  /\ config[1].marriageSpacing = 50
  /\ Len(layout[1].generations) = 2

(***************************************************************************)
(* Frame and repeatability of renders (specification Spec)                 *)
(***************************************************************************)
\* C12: a call of generateLayout, generateSVG (through a render),
\* validateProject or getLayoutStats leaves the snapshot as it was: member
\* map, every member's fields, focal person, relationship log, settings.
C12_SnapshotUnchanged ==
  [][(GenerateLayout \/ ValidateProject \/ GetTreeSvg \/ GetTreeThumbnail
      \/ PostTreeRegenerate \/ GetTreeStats \/ regenerateSVG)
     => /\ project'.members = project.members
        /\ project'.mainPersonId = project.mainPersonId
        /\ project'.relationships = project.relationships
        /\ project'.settings = project.settings
        /\ project' = project]_vars

\* a snapshot with links and a log, listed youngest first, after a
\* validated render
C12_Witness ==
  /\ svg # None
  /\ layout # None
  /\ errors # None
  /\ Len(project.relationships) >= 2
  /\ Len(project.members) = 3
  /\ project.members[1].foraldrar # <<>>
  /\ project.members[2].partner # Null

Clusters == identifyFamilyGroups(project.members)

\* the places <<cluster, position>> at which the id is listed
PlacesOf(groups, id) ==
  UNION {{<<g, k>> : k \in {n \in DOMAIN groups[g].members :
                              groups[g].members[n].id = id}} :
         g \in DOMAIN groups}

\* the clusters started by the id
StartedBy(groups, id) == {g \in DOMAIN groups : groups[g].id = id}

PositionOf(members, id) == CHOOSE i \in DOMAIN members : members[i].id = id

\* the id is in no cluster started before the scan reaches the member at
\* position pos
UnclaimedAt(groups, members, id, pos) ==
  \A g \in DOMAIN groups :
     PositionOf(members, groups[g].id) < pos =>
       \A k \in DOMAIN groups[g].members : groups[g].members[k].id # id

\* C14: every person is listed in exactly one cluster, once; the clusters
\* list nobody else.
C14_ClustersPartition ==
  layout # None =>
    /\ \A m \in DOMAIN project.members :
          Cardinality(PlacesOf(Clusters, project.members[m].id)) = 1
    /\ \A g \in DOMAIN Clusters :
          /\ Clusters[g].members # <<>>
          /\ Range(Clusters[g].members) \subseteq Range(project.members)

\* a parent's cluster holding a child whose other parent started a
\* cluster of its own
C14_Witness ==
  /\ layout # None
  /\ \E g, h \in DOMAIN Clusters :
        /\ g # h
        /\ Len(Clusters[g].members) = 2
        /\ Clusters[g].members[2].foraldrar
             = <<Clusters[g].id, Clusters[h].id>>

\* triples <<child, first, later>> of member positions: the child is in
\* the barn lists of both others, first is scanned before later, and both
\* are unclaimed when the scan reaches first
SharedChildren(groups, members) ==
  {t \in (DOMAIN members) \X (DOMAIN members) \X (DOMAIN members) :
     /\ t[2] < t[3]
     /\ members[t[1]].id \in Range(members[t[2]].barn)
     /\ members[t[1]].id \in Range(members[t[3]].barn)
     /\ UnclaimedAt(groups, members, members[t[2]].id, t[2])
     /\ UnclaimedAt(groups, members, members[t[3]].id, t[2])}

\* the child is in the cluster started by first and in no cluster started
\* by later
FirstTouch(groups, members, t) ==
  /\ \E g \in StartedBy(groups, members[t[2]].id) :
        \E k \in DOMAIN groups[g].members :
           groups[g].members[k].id = members[t[1]].id
  /\ \A g \in StartedBy(groups, members[t[3]].id) :
        \A k \in DOMAIN groups[g].members :
           groups[g].members[k].id # members[t[1]].id

\* C15 as stated: a child of two persons, both unclaimed when the scan
\* reaches the first of them, is in the first one's cluster and not in the
\* later one's.
C15_FirstParentClaims ==
  layout # None =>
    \A t \in SharedChildren(Clusters, project.members) :
       FirstTouch(Clusters, project.members, t)

\* C15 (amended): the same, for a child that is itself unclaimed when the
\* scan reaches the first parent; and the later parent is in the first
\* one's cluster only as its partner or its child.
C15_FirstTouchWins ==
  layout # None =>
    \A t \in SharedChildren(Clusters, project.members) :
       LET members == project.members
       IN UnclaimedAt(Clusters, members, members[t[1]].id, t[2]) =>
            /\ FirstTouch(Clusters, members, t)
            /\ \A g \in StartedBy(Clusters, members[t[2]].id) :
                  (\E k \in DOMAIN Clusters[g].members :
                      Clusters[g].members[k].id = members[t[3]].id)
                  => \/ members[t[2]].partner = members[t[3]].id
                     \/ members[t[3]].id \in Range(members[t[2]].barn)

\* two parents that are not partners, scanned before their shared child
C15_Witness ==
  /\ layout # None
  /\ \E t \in SharedChildren(Clusters, project.members) :
        /\ t[2] < t[1]
        /\ project.members[t[2]].partner # project.members[t[3]].id
        /\ StartedBy(Clusters, project.members[t[3]].id) # {}
        /\ FirstTouch(Clusters, project.members, t)

(***************************************************************************)
(* Links between persons (specification SpecMembers)                       *)
(***************************************************************************)
Persons == Range(project.members)

Rejected(outcome) ==
  /\ outcome.returned.kind = "throws"
  /\ outcome.project = project
  /\ outcome.inherited = inherited

PartnerRequest(relatedPersonId) ==
  [type |-> "partner", relatedPersonId |-> relatedPersonId]

\* C16: among the persons of the project the partner field is mutual, and
\* addRelationship of type partner between two persons is rejected, leaving
\* the project as it was, when one of the two has a partner other than the
\* other one.
C16_PartnerSymmetric ==
  /\ \A a, b \in Persons : a.partner = b.id <=> b.partner = a.id
  /\ \A a, b \in Persons :
       (a.partner \notin {Null, b.id} \/ b.partner \notin {Null, a.id})
         => Rejected(addRelationship(project, inherited, a.id,
                                     PartnerRequest(b.id)))

\* two persons are partners of each other and a third person has none
C16_Witness ==
  \E a, b, c \in Persons :
     /\ a.id # b.id
     /\ a.partner = b.id /\ b.partner = a.id
     /\ c.partner = Null
     /\ addRelationship(project, inherited, a.id, PartnerRequest(c.id))
          .returned.errors = <<"person1-has-partner">>

\* the ids a person stores: parents, children and partner
StoredIds(p) ==
  Range(p.foraldrar) \cup Range(p.barn)
    \cup (IF p.partner = Null THEN {} ELSE {p.partner})

\* C17: every parent id, child id and partner id stored in a person is the
\* id of a person of the project.
C17_ReferencesResolve ==
  \A p \in Persons : StoredIds(p) \subseteq MemberIds

\* p is recorded as a parent of c, on either side
ParentOf(p, c) == c.id \in Range(p.barn) \/ p.id \in Range(c.foraldrar)

\* the persons at most n parent-to-child steps below p, p included
RECURSIVE Below(_, _)
Below(p, n) ==
  IF n = 0 THEN {p}
  ELSE {p} \cup UNION {Below(c, n - 1) : c \in {x \in Persons : ParentOf(p, x)}}

LinkRequest(type, relatedPersonId) ==
  [type |-> type, relatedPersonId |-> relatedPersonId]

GenerationUpdate(generation) ==
  [namn |-> None, generation |-> Some(generation)]

\* C18: a parent's generation is strictly less than the child's on every
\* parent-child link; addRelationship rejects a parent-child link between
\* two persons whose generations are not in that order or whose child is
\* already above the parent, and updateMember rejects a generation that is
\* not above every parent's and below every child's.
C18_ParentsAbove ==
  /\ \A p, c \in Persons : ParentOf(p, c) => p.generation < c.generation
  /\ \A p, c \in Persons :
       (p.generation >= c.generation \/ p \in Below(c, Len(project.members)))
         => /\ Rejected(addRelationship(project, inherited, p.id,
                                        LinkRequest("parent", c.id)))
            /\ Rejected(addRelationship(project, inherited, c.id,
                                        LinkRequest("child", p.id)))
  /\ \A m \in Persons, g \in Generations :
       (\E q \in Persons : \/ ParentOf(q, m) /\ q.generation >= g
                           \/ ParentOf(m, q) /\ q.generation <= g)
         => Rejected(updateMember(project, inherited, m.id,
                                  GenerationUpdate(g)))

\* a parent with a child: the reverse link would close a cycle and the
\* parent cannot move to the child's generation
C18_Witness ==
  \E p, c \in Persons :
     /\ ParentOf(p, c)
     /\ addRelationship(project, inherited, c.id, LinkRequest("parent", p.id))
          .returned.errors = <<"circular", "parent-generation">>
     /\ updateMember(project, inherited, p.id, GenerationUpdate(c.generation))
          .returned.errors = <<"child-generation">>

\* in the member list members, parentId lists childId as a child
ListsChild(members, parentId, childId) ==
  \E i \in DOMAIN members :
     members[i].id = parentId /\ childId \in Range(members[i].barn)

\* in the member list members, childId lists parentId as a parent
ListsParent(members, childId, parentId) ==
  \E i \in DOMAIN members :
     members[i].id = childId /\ parentId \in Range(members[i].foraldrar)

\* the parent and the child a request of type parent or child names
ParentIn(type, memberId, relatedPersonId) ==
  IF type = "parent" THEN memberId ELSE relatedPersonId

ChildIn(type, memberId, relatedPersonId) ==
  IF type = "parent" THEN relatedPersonId ELSE memberId

\* C19: a person lists a child exactly when that child lists the person
\* as a parent; a successful addRelationship of type parent or child
\* between two persons leaves both entries present and a removeRelationship
\* of type parent or child leaves both absent.
C19_ParentChildMutual ==
  /\ \A p, c \in Persons :
       c.id \in Range(p.barn) <=> p.id \in Range(c.foraldrar)
  /\ \A a, b \in Persons, type \in {"parent", "child"} :
       LET parentId == ParentIn(type, a.id, b.id)
           childId  == ChildIn(type, a.id, b.id)
           added    == addRelationship(project, inherited, a.id,
                                       LinkRequest(type, b.id))
           removed  == removeRelationship(project, inherited, a.id, b.id,
                                          type)
       IN /\ added.returned.kind = "true"
               => /\ ListsChild(added.project.members, parentId, childId)
                  /\ ListsParent(added.project.members, childId, parentId)
          /\ removed.returned.kind = "true"
          /\ ~ListsChild(removed.project.members, parentId, childId)
          /\ ~ListsParent(removed.project.members, childId, parentId)

\* a link recorded on both sides, made by a request that a further person
\* could repeat for a second child
C19_Witness ==
  \E p, c, d \in Persons :
     /\ c.id \in Range(p.barn) /\ p.id \in Range(c.foraldrar)
     /\ d.id \notin Range(p.barn)
     /\ addRelationship(project, inherited, d.id, LinkRequest("child", p.id))
          .returned.kind = "true"

\* C20: the main person is a key of the member map, and removeMember of
\* the main person throws and leaves the project as it was.
C20_MainPersonStays ==
  /\ IsMember(project, project.mainPersonId)
  /\ LET outcome == removeMember(project, inherited, project.mainPersonId)
     IN /\ Rejected(outcome)
        /\ outcome.returned.errors = <<"main-person">>

\* the main person has a partner and a child among the other members, who
\* can both be removed
C20_Witness ==
  \E p, c \in Persons :
     /\ OwnMember(project, project.mainPersonId).partner = p.id
     /\ c.id \in Range(OwnMember(project, project.mainPersonId).barn)
     /\ removeMember(project, inherited, p.id).returned.kind = "true"
     /\ removeMember(project, inherited, project.mainPersonId)
          .returned.kind = "throws"

(***************************************************************************)
(* Rejected operations (specification SpecMembers)                         *)
(***************************************************************************)
\* the outcome throws and the stored project differs from the one before
StoresOnThrow(outcome) ==
  outcome.returned.kind = "throws" /\ outcome.project # project

\* C21: an operation that throws leaves the stored project exactly as it
\* was: addMember with invalid data, updateMember with an invalid field or
\* a generation against a relationship, addRelationship with self, a
\* generation-order violation, a cycle or an existing partner, removeMember
\* of the main person.
C21_RejectedStoresNothing ==
  /\ \A namn \in MemberNames, generation \in Generations, random \in Randoms :
       ~StoresOnThrow(addMember(project, inherited,
                                [namn |-> namn, generation |-> generation],
                                random))
  /\ \A memberId \in MemberIds, updates \in Updates :
       ~StoresOnThrow(updateMember(project, inherited, memberId, updates))
  /\ \A memberId \in MemberIds, relatedPersonId \in MemberIds \cup InheritedKeys,
        type \in Types :
       ~StoresOnThrow(addRelationship(project, inherited, memberId,
                                      LinkRequest(type, relatedPersonId)))
  /\ \A memberId \in MemberIds \cup InheritedKeys :
       ~StoresOnThrow(removeMember(project, inherited, memberId))

\* a parent with a child and a third person who has a partner: each kind
\* of rejection the claim lists is available
C21_Witness ==
  \E p, c, d \in Persons :
     /\ ParentOf(p, c)
     /\ d.partner # Null /\ d.partner # c.id /\ d.id # c.id
     /\ addMember(project, inherited, [namn |-> <<" ">>, generation |-> 11],
                  <<"7", "q", "2", "x">>).returned.kind = "throws"
     /\ updateMember(project, inherited, p.id, GenerationUpdate(c.generation))
          .returned.kind = "throws"
     /\ updateMember(project, inherited, p.id,
                     [namn |-> Some(<<" ">>), generation |-> None])
          .returned.errors = <<"name-required">>
     /\ addRelationship(project, inherited, p.id, LinkRequest("parent", p.id))
          .returned.errors = <<"self">>
     /\ addRelationship(project, inherited, c.id, LinkRequest("parent", p.id))
          .returned.errors = <<"circular", "parent-generation">>
     /\ addRelationship(project, inherited, d.id, LinkRequest("partner", c.id))
          .returned.kind = "throws"
     /\ removeMember(project, inherited, project.mainPersonId)
          .returned.errors = <<"main-person">>

(***************************************************************************)
(* The stored document after a mutation (specification SpecIntegration)    *)
(***************************************************************************)
\* the text nodes of a document: the title and the labels
TextNodes(file) ==
  {file.title} \cup {file.people[i].text : i \in DOMAIN file.people}

\* sub occurs in text
Occurs(sub, text) ==
  \E i \in 0..(Len(text) - Len(sub)) : SubSeq(text, i + 1, i + Len(sub)) = sub

\* the document shows the name in one of its text nodes
ContainsName(file, name) ==
  \E t \in TextNodes(file) : Occurs(escapeXML(name), t)

\* the members of before that are gone or carry another name in after
RemovedOrRenamed(before, after) ==
  {m \in Range(before.members) :
     \A n \in Range(after.members) : n.id = m.id => n.namn # m.namn}

\* the labels of a document, as a bag
LabelBag(file) ==
  [t \in {file.people[i].text : i \in DOMAIN file.people} |->
     Cardinality({i \in DOMAIN file.people : file.people[i].text = t})]

\* the escaped names of the members, as a bag
NameBag(members) ==
  [t \in {escapeXML(members[i].namn) : i \in DOMAIN members} |->
     Cardinality({i \in DOMAIN members : escapeXML(members[i].namn) = t})]

C23_AtMostTwoParents ==
  \A p \in Persons : Len(p.foraldrar) <= 2

(***************************************************************************)
(* Spacing of the presets (specification SpecConfig)                       *)
(***************************************************************************)
SpacingKeys == {"generationSpacing", "personSpacing", "marriageSpacing"}

\* C24: a render without caller overrides, under any spacing preset and
\* orientation, uses a generation, person and marriage spacing that are
\* strictly positive integers.
C24_PositiveSpacing ==
  (config # None /\ options = Some(NoOverrides))
    => \A k \in SpacingKeys : config[1][k] \in Nat \ {0}

\* a tight landscape render without overrides: both factors have been
\* applied
C24_Witness ==
  /\ svg # None /\ options = Some(NoOverrides)
  /\ project.settings.layout.spacing = "tight"
  /\ project.settings.orientation = "landscape"
  /\ config[1].generationSpacing = 48
  /\ config[1].personSpacing = 96
  /\ config[1].marriageSpacing = 30

(***************************************************************************)
(* Serialized parent-child paths (specification Spec)                      *)
(***************************************************************************)
Placement(lay, id) == CHOOSE p \in Range(lay.people) : p.member.id = id

\* the path runs down from the parent's anchor, across, and down to the
\* child's anchor, the horizontal segment midway between the two rows
Orthogonal(path, parent, child) ==
  /\ path.tag = "path" /\ Len(path.d) = 4
  /\ path.d[1][1] = parent.x /\ path.d[2][1] = parent.x
  /\ path.d[3][1] = child.x  /\ path.d[4][1] = child.x
  /\ path.d[2][2] = path.d[3][2]
  /\ 2 * path.d[2][2] = parent.y + child.y

\* C25: every parent-child connection is serialized as an orthogonal path
\* from the parent's anchor x to the child's with the horizontal segment
\* exactly midway between the two rows; when the parent's generation is
\* less than the child's, start y < midpoint y < end y.
C25_PathDescends ==
  svg # None =>
    LET pairs == ParentPairs(project.members)
        paths == svg[1].connections
    IN /\ Len(paths) = Len(pairs)
       /\ \A k \in DOMAIN paths :
            LET parent == Placement(layout[1], pairs[k][2])
                child  == Placement(layout[1], pairs[k][1])
            IN /\ Orthogonal(paths[k], parent, child)
               /\ parent.member.generation < child.member.generation
                    => /\ paths[k].d[1][2] < paths[k].d[2][2]
                       /\ paths[k].d[2][2] < paths[k].d[4][2]

\* C25 (amended): every parent-child connection is serialized as an
\* orthogonal path from the parent's anchor x to the child's with the
\* horizontal segment exactly midway between the two rows; the path starts
\* 10 below the parent's row and ends 10 above the child's, and when the
\* child's row is more than 20 below the parent's, start y < midpoint y <
\* end y.
C25_PathDescendsWhenRowsApart ==
  svg # None =>
    LET pairs == ParentPairs(project.members)
        paths == svg[1].connections
    IN /\ Len(paths) = Len(pairs)
       /\ \A k \in DOMAIN paths :
            LET parent == Placement(layout[1], pairs[k][2])
                child  == Placement(layout[1], pairs[k][1])
            IN /\ Orthogonal(paths[k], parent, child)
               /\ paths[k].d[1][2] = parent.y + connectorOffset
               /\ paths[k].d[4][2] = child.y - connectorOffset
               /\ child.y - parent.y > 2 * connectorOffset
                    => /\ paths[k].d[1][2] < paths[k].d[2][2]
                       /\ paths[k].d[2][2] < paths[k].d[4][2]

\* a path with three proper segments between a parent and a child one
\* band further down
C25_Witness ==
  /\ svg # None
  /\ \E k \in DOMAIN svg[1].connections :
        LET d == svg[1].connections[k].d
            pair == ParentPairs(project.members)[k]
        IN /\ Placement(layout[1], pair[2]).member.generation
                < Placement(layout[1], pair[1]).member.generation
           /\ d[1][1] # d[4][1]
           /\ d[1][2] < d[2][2] /\ d[2][2] < d[4][2]

(***************************************************************************)
(* Canvas of the thumbnail (specification SpecTall)                        *)
(***************************************************************************)
\* C26: the canvas of a thumbnail is no wider and no taller than the
\* canvas of a full render of the same snapshot without overrides.
C26_ThumbnailWithinFull ==
  (svg # None /\ options = Some(thumbnailConfig))
    => \E full \in {renderFamilyTree(project, NoOverrides).svg} :
          /\ svg[1].width <= full.width
          /\ svg[1].height <= full.height

(***************************************************************************)
(* Labels and the canvas margins (specification SpecWide)                  *)
(***************************************************************************)
\* every partner reference is answered by the partner
SymmetricPartners(proj) ==
  \A i \in DOMAIN proj.members :
     proj.members[i].partner # Null =>
       \E j \in DOMAIN proj.members :
          /\ proj.members[j].id = proj.members[i].partner
          /\ proj.members[j].partner = proj.members[i].id

\* C27: for a valid snapshot with a symmetric partner relation, rendered
\* under its own preset and orientation without overrides, every label lies
\* inside the canvas margins: its left edge is at or right of marginLeft,
\* its right edge at or left of width - marginRight, and its y at or above
\* height - marginBottom.
C27_LabelsInsideMargins ==
  (/\ layout # None
   /\ options = Some(NoOverrides)
   /\ Len(validateProject(project)) = 0
   /\ SymmetricPartners(project))
    => \A i \in DOMAIN layout[1].people :
          LET p == layout[1].people[i]
          IN /\ p.x - p.textWidth \div 2 >= config[1].marginLeft
             /\ p.x + p.textWidth \div 2
                  <= layout[1].dimensions.width - config[1].marginRight
             /\ p.y <= layout[1].dimensions.height - config[1].marginBottom

\* a landscape render whose widest band outgrows the minimum page, so that
\* the last label ends exactly at width - marginRight
C27_Witness ==
  /\ layout # None
  /\ options = Some(NoOverrides)
  /\ Len(validateProject(project)) = 0
  /\ SymmetricPartners(project)
  /\ project.settings.orientation = "landscape"
  /\ layout[1].dimensions.width > minPageWidth
  /\ \E i \in DOMAIN layout[1].people :
        layout[1].people[i].x + layout[1].people[i].textWidth \div 2
          = layout[1].dimensions.width - config[1].marginRight

(***************************************************************************)
(* Labels of a band (specification Spec)                                   *)
(***************************************************************************)
\* C28: whenever 0 < marriageSpacing <= personSpacing, the placements of a
\* band, taken in member order, have strictly increasing x, and the right
\* edge of each label is at least marriageSpacing left of the left edge of
\* the next label.
C28_LabelsApart ==
  (/\ layout # None
   /\ 0 < config[1].marriageSpacing
   /\ config[1].marriageSpacing <= config[1].personSpacing)
    => \A b \in DOMAIN layout[1].generations :
          LET ps == BandPeople(layout[1], b)
          IN \A i \in 1..(Len(ps) - 1) :
                /\ ps[i].x < ps[i + 1].x
                /\ ps[i].x + ps[i].textWidth \div 2
                     + config[1].marriageSpacing
                     <= LeftEdge(ps[i + 1])

\* a band of three under 0 < marriageSpacing <= personSpacing in which one
\* gap is exactly marriageSpacing and another is wider
C28_Witness ==
  /\ layout # None
  /\ 0 < config[1].marriageSpacing
  /\ config[1].marriageSpacing <= config[1].personSpacing
  /\ \E b \in DOMAIN layout[1].generations :
        LET ps == BandPeople(layout[1], b)
            Gap(i) == LeftEdge(ps[i + 1])
                      - (ps[i].x + ps[i].textWidth \div 2)
        IN /\ Len(ps) = 3
           /\ \E i, j \in 1..2 :
                 /\ Gap(i) = config[1].marriageSpacing
                 /\ Gap(j) > config[1].marriageSpacing

(***************************************************************************)
(* The relationship log (specification SpecMembers)                        *)
(***************************************************************************)
\* the two persons are linked as parent and child or as partners
LinkedPair(p, q) ==
  \/ ParentOf(p, q)
  \/ ParentOf(q, p)
  \/ p.partner = q.id
  \/ q.partner = p.id

\* C29: the relationship log agrees with the member fields: it holds an
\* entry for a pair of persons if and only if the two are linked as parent
\* and child or as partners (so removing a kind of relationship the two do
\* not have never deletes the entry of the link they do have).
C29_LogAgreesWithLinks ==
  \A p, q \in Persons :
     p.id # q.id =>
       ((\E i \in DOMAIN project.relationships :
            Between(project.relationships[i], p.id, q.id))
        <=> LinkedPair(p, q))

(***************************************************************************)
(* Calls in flight together (specification SpecCalls)                      *)
(***************************************************************************)
\* C30: after two addMember calls on the same project have both completed,
\* the stored project holds both new members and its person count is the
\* old count plus two.
C30_NoLostUpdate ==
  (\A c \in CallIds : calls[c].pc = "done")
    => /\ \A c \in CallIds : calls[c].returned \in Range(project.members)
       /\ Len(project.members) = Len(FreshProject.members) + 2
       /\ project.metadata.antal_personer
            = FreshProject.metadata.antal_personer + 2

====
